---------------------------- MODULE Spec2Model ----------------------------
(***************************************************************************)
(* A model of swagger-mcp: the filter engine, the tool compiler            *)
(* (LoadSwaggerServer), the request dispatcher (CreateMCPToolHandler and   *)
(* the older inline handler) and the security binding                      *)
(* (setRequestSecurity).                                                   *)
(*                                                                         *)
(* Strings are sequences of atoms.  An atom is one character, except that  *)
(* the multi-character literals the code writes or tests for as a whole    *)
(* ("[Error]", "Bearer ", ...) are single atoms; a URL scheme is written   *)
(* with its last slash apart, <<"https:/", "/">>, because the code trims   *)
(* slashes off the end of URLs.                                            *)
(*                                                                         *)
(* The repository holds three builds of the server:                        *)
(*   "head"  src/unnamed/part_001                                          *)
(*   "v2"    src/app/mcp-server/server.go lines 238-718                    *)
(*   "v1"    src/app/mcp-server/server.go lines 1-236                      *)
(* The server runs as "head" or as "v1".  LoadSwaggerServer of "v2"        *)
(* declares a variable it never uses (server.go:424), which the Go         *)
(* compiler rejects, so of "v2" only setRequestSecurity is modelled, as a  *)
(* function applied to bounded inputs.                                     *)
(***************************************************************************)
EXTENDS Integers, Sequences, FiniteSets, TLC

VARIABLES
    build,      \* which build of the server runs
    doc,        \* the loaded ApiDocument (models.SwaggerSpec)
    cfg,        \* models.ApiConfig
    phase,      \* "extract", "compile", "serving", "crashed", or "probe"
    pathsLeft,  \* paths of the outer loop of LoadSwaggerServer not yet visited
    curPath,    \* the path of the outer loop, or NoPath
    methodsLeft,\* methods of curPath not yet visited by the inner loop
    registry,   \* tool name -> the state captured by the registered handler
    compiled,   \* tool name -> the same state as it was when AddTool was called
    added,      \* the (path, method) pairs AddTool was called for
    last,       \* the latest dispatcher invocation and its outcome, or NoCall
    probe       \* the latest application of a pure function, or NoProbe

vars == <<build, doc, cfg, phase, pathsLeft, curPath, methodsLeft,
          registry, compiled, added, last, probe>>

-----------------------------------------------------------------------------
(* Bounds of the model *)

\* longest list of patterns / methods / apiKey entries joined into one option
MaxEntries == 2

-----------------------------------------------------------------------------
(* package strings *)

UpperChars == <<"A","B","C","D","E","F","G","H","I","J","K","L","M",
                "N","O","P","Q","R","S","T","U","V","W","X","Y","Z">>
LowerChars == <<"a","b","c","d","e","f","g","h","i","j","k","l","m",
                "n","o","p","q","r","s","t","u","v","w","x","y","z">>

IsUpperC(c) == \E i \in 1..26 : UpperChars[i] = c
IsLowerC(c) == \E i \in 1..26 : LowerChars[i] = c
ToLowerC(c) == IF IsUpperC(c)
               THEN LowerChars[CHOOSE i \in 1..26 : UpperChars[i] = c] ELSE c
ToUpperC(c) == IF IsLowerC(c)
               THEN UpperChars[CHOOSE i \in 1..26 : LowerChars[i] = c] ELSE c

ToLower(s) == [i \in 1..Len(s) |-> ToLowerC(s[i])]
ToUpper(s) == [i \in 1..Len(s) |-> ToUpperC(s[i])]

\* strings.EqualFold
EqualFold(s, t) == ToLower(s) = ToLower(t)

HasPrefix(s, p) == Len(s) >= Len(p) /\ SubSeq(s, 1, Len(p)) = p
HasSuffix(s, p) == Len(s) >= Len(p) /\ SubSeq(s, Len(s) - Len(p) + 1, Len(s)) = p
TrimPrefix(s, p) == IF HasPrefix(s, p) THEN SubSeq(s, Len(p) + 1, Len(s)) ELSE s
TrimSuffix(s, p) == IF HasSuffix(s, p) THEN SubSeq(s, 1, Len(s) - Len(p)) ELSE s

sHttp  == <<"http:/", "/">>
sHttps == <<"https:/", "/">>

\* strings.Index, 1-based; 0 when sub does not occur (Go: 0-based, -1)
Occurrences(s, sub) ==
    {i \in 1..(Len(s) - Len(sub) + 1) : SubSeq(s, i, i + Len(sub) - 1) = sub}
Least(S) == CHOOSE i \in S : \A j \in S : i <= j
Index(s, sub) == IF Occurrences(s, sub) = {} THEN 0 ELSE Least(Occurrences(s, sub))

Contains(s, sub) == Index(s, sub) # 0

\* strings.Replace(s, old, new, 1)
ReplaceFirst(s, old, new) ==
    LET i == Index(s, old)
    IN  IF i = 0 THEN s
        ELSE SubSeq(s, 1, i - 1) \o new \o SubSeq(s, i + Len(old), Len(s))

\* strings.ReplaceAll(s, c, "") for a one-atom c
RemoveAll(s, c) == SelectSeq(s, LAMBDA x : x # c)

IsSpaceC(c) == c = " "

RECURSIVE TrimLeft(_)
TrimLeft(s) == IF s # <<>> /\ IsSpaceC(Head(s)) THEN TrimLeft(Tail(s)) ELSE s
RECURSIVE TrimRight(_)
TrimRight(s) == IF s # <<>> /\ IsSpaceC(s[Len(s)])
                THEN TrimRight(SubSeq(s, 1, Len(s) - 1)) ELSE s
\* strings.TrimSpace
TrimSpace(s) == TrimRight(TrimLeft(s))

\* strings.Split(s, sep) for a one-atom sep: always at least one piece
RECURSIVE Split(_, _)
Split(s, sep) ==
    LET i == Index(s, <<sep>>)
    IN  IF i = 0 THEN <<s>>
        ELSE <<SubSeq(s, 1, i - 1)>> \o Split(SubSeq(s, i + 1, Len(s)), sep)

\* strings.Join
RECURSIVE Join(_, _)
Join(parts, sep) ==
    IF parts = <<>> THEN <<>>
    ELSE IF Len(parts) = 1 THEN parts[1]
    ELSE parts[1] \o <<sep>> \o Join(Tail(parts), sep)

\* all sequences over S of length at most n
SeqsUpTo(S, n) == UNION {[1..k -> S] : k \in 0..n}

-----------------------------------------------------------------------------
(* package regexp, for the patterns made of literals, ".", a postfix "*",  *)
(* a leading "^" and "$"; "(" stands for a pattern that does not compile.  *)

\* regexp.Compile succeeds
RegexCompiles(p) ==
    /\ ~ Contains(p, <<"(">>)
    /\ p[1] # "*"
    /\ \A i \in 2..Len(p) : p[i] = "*" => p[i-1] \notin {"*", "^"}

RECURSIVE MatchHere(_, _)
MatchHere(p, s) ==
    IF p = <<>> THEN TRUE
    ELSE IF Len(p) >= 2 /\ p[2] = "*"
    THEN \E k \in 0..Len(s) :
            /\ \A j \in 1..k : p[1] = "." \/ p[1] = s[j]
            /\ MatchHere(SubSeq(p, 3, Len(p)), SubSeq(s, k + 1, Len(s)))
    ELSE IF p[1] = "$" THEN s = <<>> /\ MatchHere(Tail(p), s)
    ELSE /\ s # <<>>
         /\ (p[1] = "." \/ p[1] = s[1])
         /\ MatchHere(Tail(p), Tail(s))

\* (*regexp.Regexp).MatchString: an unanchored search
MatchString(p, s) ==
    IF p[1] = "^" THEN MatchHere(Tail(p), s)
    ELSE \E i \in 1..(Len(s) + 1) : MatchHere(p, SubSeq(s, i, Len(s)))

-----------------------------------------------------------------------------
(* Filter engine *)

\* compileRegexes: split on ",", trim, drop empty and non-compiling patterns
\* compileRegexes leaving the loop at the first pattern that does not compile
compileRegexes_StopsAtInvalid(paths) ==
    LET trimmed == [i \in 1..Len(Split(paths, ",")) |-> TrimSpace(Split(paths, ",")[i])]
        bad     == {i \in 1..Len(trimmed) : trimmed[i] # <<>> /\ ~ RegexCompiles(trimmed[i])}
        upTo    == IF bad = {} THEN Len(trimmed) ELSE Least(bad) - 1
    IN  SelectSeq(SubSeq(trimmed, 1, upTo), LAMBDA p : p # <<>>)

\* compileRegexes
compileRegexes(paths) ==
    LET trimmed == [i \in 1..Len(Split(paths, ",")) |-> TrimSpace(Split(paths, ",")[i])]
    IN  SelectSeq(trimmed, LAMBDA p : p # <<>> /\ RegexCompiles(p))

\* shouldIncludePath with the include match returning at once
shouldIncludePath_IncludeFirst(path, includeRegexes, excludeRegexes) ==
    \/ \E i \in 1..Len(includeRegexes) : MatchString(includeRegexes[i], path)
    \/ /\ Len(includeRegexes) = 0
       /\ ~ \E i \in 1..Len(excludeRegexes) : MatchString(excludeRegexes[i], path)

\* shouldIncludePath
shouldIncludePath(path, includeRegexes, excludeRegexes) ==
    LET include == \/ Len(includeRegexes) = 0
                   \/ \E i \in 1..Len(includeRegexes) : MatchString(includeRegexes[i], path)
    IN  /\ include
        /\ ~ \E i \in 1..Len(excludeRegexes) : MatchString(excludeRegexes[i], path)

\* shouldIncludeMethod
shouldIncludeMethod(method, includeMethods, excludeMethods) ==
    LET include == \/ Len(includeMethods) = 0
                   \/ \E i \in 1..Len(includeMethods) :
                         EqualFold(TrimSpace(includeMethods[i]), method)
    IN  /\ include
        /\ ~ \E i \in 1..Len(excludeMethods) :
                 EqualFold(TrimSpace(excludeMethods[i]), method)

\* LoadSwaggerServer: the method lists taken from the configuration
methodList(option) ==
    IF Len(TrimSpace(option)) > 0 THEN Split(option, ",") ELSE <<>>


-----------------------------------------------------------------------------
(* encoding/base64 *)

Digits == <<"0","1","2","3","4","5","6","7","8","9">>

\* the byte of a character (ASCII)
Ord(c) ==
    IF IsUpperC(c) THEN 64 + CHOOSE i \in 1..26 : UpperChars[i] = c
    ELSE IF IsLowerC(c) THEN 96 + CHOOSE i \in 1..26 : LowerChars[i] = c
    ELSE IF \E i \in 1..10 : Digits[i] = c THEN 47 + CHOOSE i \in 1..10 : Digits[i] = c
    ELSE CASE c = " " -> 32 [] c = "-" -> 45 [] c = "/" -> 47 [] c = ":" -> 58
           [] c = "=" -> 61 [] c = "," -> 44 [] c = "_" -> 95 [] OTHER -> 63

B64Chars == UpperChars \o LowerChars \o Digits \o <<"+", "/">>
B64(n) == B64Chars[n + 1]

RECURSIVE B64Encode(_)
B64Encode(b) ==
    IF Len(b) = 0 THEN <<>>
    ELSE IF Len(b) = 1
    THEN <<B64(b[1] \div 4), B64((b[1] % 4) * 16), "=", "=">>
    ELSE IF Len(b) = 2
    THEN <<B64(b[1] \div 4), B64((b[1] % 4) * 16 + b[2] \div 16),
           B64((b[2] % 16) * 4), "=">>
    ELSE <<B64(b[1] \div 4), B64((b[1] % 4) * 16 + b[2] \div 16),
           B64((b[2] % 16) * 4 + b[3] \div 64), B64(b[3] % 64)>>
         \o B64Encode(SubSeq(b, 4, Len(b)))

\* base64.StdEncoding.EncodeToString([]byte(s))
EncodeToString(s) == B64Encode([i \in 1..Len(s) |-> Ord(s[i])])

-----------------------------------------------------------------------------
(* net/http: header maps and request URLs.  A request is                   *)
(*   [pre |-> the URL up to its query, q |-> the query, header |-> ...]    *)
(* where q and header map a name to the sequence of its values.  The       *)
(* query is kept parsed: url.Values' Encode/ParseQuery round trip is the   *)
(* identity on it up to the order of the keys.                             *)

\* textproto.CanonicalMIMEHeaderKey
CanonicalHeaderKey(k) ==
    IF \E i \in 1..Len(k) : k[i] = " " THEN k
    ELSE [i \in 1..Len(k) |->
            IF i = 1 \/ k[i-1] = "-" THEN ToUpperC(k[i]) ELSE ToLowerC(k[i])]

\* url.Values.Set / values of a map[string][]string
MapSet(m, k, v) == [x \in DOMAIN m \cup {k} |-> IF x = k THEN <<v>> ELSE m[x]]
MapAdd(m, k, v) ==
    [x \in DOMAIN m \cup {k} |->
        IF x = k THEN (IF k \in DOMAIN m THEN m[k] ELSE <<>>) \o <<v>> ELSE m[x]]
MapGet(m, k) == IF k \in DOMAIN m /\ m[k] # <<>> THEN m[k][1] ELSE <<>>

\* a Set that appends like Add
HeaderSet_Adds(h, k, v) == MapAdd(h, CanonicalHeaderKey(k), v)

\* http.Header.Set / Add / Get
HeaderSet(h, k, v) == MapSet(h, CanonicalHeaderKey(k), v)
HeaderAdd(h, k, v) == MapAdd(h, CanonicalHeaderKey(k), v)
HeaderGet(h, k) == MapGet(h, CanonicalHeaderKey(k))

sCookie == <<"C","o","o","k","i","e">>
sAuthorization == <<"A","u","t","h","o","r","i","z","a","t","i","o","n">>
sContentType == <<"C","o","n","t","e","n","t","-","T","y","p","e">>

\* AddCookie that replaces the Cookie header instead of appending to it
AddCookie_Overwrite(req, name, value) ==
    [req EXCEPT !.header = HeaderSet(req.header, sCookie, name \o <<"=">> \o value)]

\* (*http.Request).AddCookie, and the "cookie" case of part_001; the cookie
\* alphabet of the model holds no character that AddCookie sanitizes
AddCookie(req, name, value) ==
    LET existing == HeaderGet(req.header, sCookie)
    IN  [req EXCEPT !.header =
            IF existing # <<>>
            THEN HeaderSet(req.header, sCookie, existing \o <<";", " ">> \o name \o <<"=">> \o value)
            ELSE HeaderSet(req.header, sCookie, name \o <<"=">> \o value)]

-----------------------------------------------------------------------------
(* setRequestSecurity *)

sBasic  == <<"b","a","s","i","c">>
sBearer == <<"b","e","a","r","e","r">>
sApiKey == <<"a","p","i","K","e","y">>
sHeader == <<"h","e","a","d","e","r">>
sQuery  == <<"q","u","e","r","y">>

\* one entry of the apiKey list: skipped (ok = FALSE) or passAs:name=value
EntryAt(part, colonIdx, eqIdx) ==
    IF part = <<>> \/ colonIdx = 0 \/ eqIdx = 0 \/ eqIdx < colonIdx + 2
    THEN [ok |-> FALSE, passAs |-> <<>>, name |-> <<>>, value |-> <<>>]
    ELSE [ok     |-> TRUE,
          passAs |-> ToLower(TrimSpace(SubSeq(part, 1, colonIdx - 1))),
          name   |-> TrimSpace(SubSeq(part, colonIdx + 1, eqIdx - 1)),
          value  |-> TrimSpace(SubSeq(part, eqIdx + 1, Len(part)))]
ParseTrimmed(part) == EntryAt(part, Index(part, <<":">>), Index(part, <<"=">>))
ParseEntry(raw) == ParseTrimmed(TrimSpace(raw))

\* part_001: one entry applied to the request: the switch on passAs
ApplyEntry(req, e) ==
    IF ~ e.ok THEN req
    ELSE IF e.passAs = sHeader
    THEN [req EXCEPT !.header = HeaderSet(req.header, e.name, e.value)]
    ELSE IF e.passAs = sQuery
    THEN [req EXCEPT !.q = MapSet(req.q, e.name, e.value)]
    ELSE IF e.passAs = ToLower(sCookie)
    THEN AddCookie(req, e.name, e.value)
    ELSE req

\* the loop over the entries ending at the first malformed entry
RECURSIVE ApplyEntries_StopsAtMalformed(_, _)
ApplyEntries_StopsAtMalformed(req, parts) ==
    IF parts = <<>> \/ ~ ParseEntry(Head(parts)).ok THEN req
    ELSE ApplyEntries_StopsAtMalformed(ApplyEntry(req, ParseEntry(Head(parts))), Tail(parts))

\* part_001: the loop over the entries, each applied as it is read
RECURSIVE ApplyEntries(_, _)
ApplyEntries(req, parts) ==
    IF parts = <<>> THEN req
    ELSE ApplyEntries(ApplyEntry(req, ParseEntry(Head(parts))), Tail(parts))

\* server.go: headers are set in the loop, queryValues and cookieValues are
\* collected and applied after it
RECURSIVE ApplyHeaderEntries(_, _)
ApplyHeaderEntries(req, parts) ==
    IF parts = <<>> THEN req
    ELSE LET e == ParseEntry(Head(parts))
         IN  ApplyHeaderEntries(
                 IF e.ok /\ e.passAs = sHeader
                 THEN [req EXCEPT !.header = HeaderSet(req.header, e.name, e.value)]
                 ELSE req, Tail(parts))

RECURSIVE ApplyQueryEntries(_, _)
ApplyQueryEntries(req, parts) ==
    IF parts = <<>> THEN req
    ELSE LET e == ParseEntry(Head(parts))
         IN  ApplyQueryEntries(
                 IF e.ok /\ e.passAs = sQuery
                 THEN [req EXCEPT !.q = MapSet(req.q, e.name, e.value)]
                 ELSE req, Tail(parts))

RECURSIVE ApplyCookieEntries(_, _)
ApplyCookieEntries(req, parts) ==
    IF parts = <<>> THEN req
    ELSE LET e == ParseEntry(Head(parts))
         IN  ApplyCookieEntries(
                 IF e.ok /\ e.passAs = ToLower(sCookie)
                 THEN AddCookie(req, e.name, e.value)
                 ELSE req, Tail(parts))

\* part_001: apiKey := apiKeyAuth, or basicAuth when apiKeyAuth is empty
apiKeyOf(basicAuth, apiKeyAuth) ==
    IF apiKeyAuth = <<>> /\ basicAuth # <<>> THEN basicAuth ELSE apiKeyAuth

\* setRequestSecurity of part_001
setRequestSecurityHead(req, security, basicAuth, apiKeyAuth, bearerAuth) ==
    LET securityType == TrimSpace(security)
    IN  IF securityType = sBasic
        THEN IF basicAuth # <<>>
             THEN [req EXCEPT !.header =
                      HeaderSet(req.header, sAuthorization,
                                <<"Basic ">> \o EncodeToString(basicAuth))]
             ELSE req
        ELSE IF securityType = sBearer
        THEN IF bearerAuth # <<>>
             THEN [req EXCEPT !.header =
                      HeaderSet(req.header, sAuthorization, <<"Bearer ">> \o bearerAuth)]
             ELSE req
        ELSE IF securityType = sApiKey
        THEN IF apiKeyOf(basicAuth, apiKeyAuth) # <<>>
             THEN ApplyEntries(req, Split(apiKeyOf(basicAuth, apiKeyAuth), ","))
             ELSE req
        ELSE req

\* setRequestSecurity of server.go
setRequestSecurityV2(req, security, basicAuth, apiKeyAuth, bearerAuth) ==
    LET securityType == TrimSpace(security)
        r1 == IF securityType = sBasic /\ basicAuth # <<>>
              THEN [req EXCEPT !.header =
                       HeaderSet(req.header, sAuthorization,
                                 <<"Basic ">> \o EncodeToString(basicAuth))]
              ELSE req
        r2 == IF securityType = sBearer /\ bearerAuth # <<>>
              THEN [r1 EXCEPT !.header =
                       HeaderSet(r1.header, sAuthorization, <<"Bearer ">> \o bearerAuth)]
              ELSE r1
        parts == IF securityType = sApiKey /\ apiKeyAuth # <<>>
                 THEN Split(apiKeyAuth, ",") ELSE <<>>
    IN  ApplyCookieEntries(ApplyQueryEntries(ApplyHeaderEntries(r2, parts), parts), parts)

\* setRequestSecurity of the build that runs (v1 has none)
setRequestSecurity(b, req, security, basicAuth, apiKeyAuth, bearerAuth) ==
    IF b = "head" THEN setRequestSecurityHead(req, security, basicAuth, apiKeyAuth, bearerAuth)
    ELSE IF b = "v2" THEN setRequestSecurityV2(req, security, basicAuth, apiKeyAuth, bearerAuth)
    ELSE req

-----------------------------------------------------------------------------
(* Tool compiler: LoadSwaggerServer *)

\* ExtractSchemaName
ExtractSchemaName(ref, schemaType) ==
    IF ref # <<>> THEN Split(ref, "/")[Len(Split(ref, "/"))] ELSE schemaType

\* a *SchemaRef that is nil
NoSchema == [present |-> FALSE, ref |-> <<>>]
SchemaRef(ref) == [present |-> TRUE, ref |-> ref]

\* param.Schema.Ref dereferences a nil pointer
DerefPanics(param) == param.in = "body" /\ ~ param.schema.present

\* the names of the parameters of one location, in declaration order
ParamNames(parameters, location) ==
    LET sel == SelectSeq(parameters, LAMBDA prm : prm.in = location)
    IN  [i \in 1..Len(sel) |-> sel[i].name]

\* reqBody: the properties of the resolved schema of every body parameter
BodyTypes(d, parameters) ==
    LET resolved == {i \in 1..Len(parameters) :
                        /\ parameters[i].in = "body"
                        /\ ExtractSchemaName(parameters[i].schema.ref, parameters[i].type)
                              \in DOMAIN d.definitions}
        defOf(i) == d.definitions[ExtractSchemaName(parameters[i].schema.ref,
                                                    parameters[i].type)]
        propNames == UNION {DOMAIN defOf(i).properties : i \in resolved}
        \* a later body parameter overwrites the type an earlier one gave
        lastWith(n) == CHOOSE i \in resolved :
                          /\ n \in DOMAIN defOf(i).properties
                          /\ \A j \in resolved : n \in DOMAIN defOf(j).properties => j <= i
    IN  [n \in propNames |-> defOf(lastWith(n)).properties[n]]

\* part_001: the base URL of an operation
BaseURLHead(d, baseUrl) ==
    IF baseUrl # <<>> THEN baseUrl
    ELSE IF d.openapi # <<>>
    THEN IF Len(d.servers) > 0 THEN TrimSuffix(d.servers[1], <<"/">>) ELSE <<"/">>
    ELSE LET host == IF ~ HasPrefix(d.host, sHttp) /\ ~ HasPrefix(d.host, sHttps)
                     THEN sHttps \o d.host ELSE d.host
         IN  IF d.basePath # <<>>
             THEN TrimSuffix(host, <<"/">>) \o <<"/">> \o TrimPrefix(d.basePath, <<"/">>)
             ELSE host

\* a derivation that takes plain http for a host without a scheme
getBaseURL_PlainHttp(d) ==
    IF d.openapi # <<>> /\ Len(d.servers) > 0 THEN TrimSuffix(d.servers[1], <<"/">>)
    ELSE LET host == IF ~ HasPrefix(d.host, sHttp) /\ ~ HasPrefix(d.host, sHttps)
                     THEN sHttp \o d.host ELSE d.host
         IN  IF d.basePath # <<>>
             THEN TrimSuffix(host, <<"/">>) \o <<"/">> \o TrimPrefix(d.basePath, <<"/">>)
             ELSE host

\* extracter.go: getBaseURL
getBaseURL(d) ==
    IF d.openapi # <<>> /\ Len(d.servers) > 0 THEN TrimSuffix(d.servers[1], <<"/">>)
    ELSE LET host == IF ~ HasPrefix(d.host, sHttp) /\ ~ HasPrefix(d.host, sHttps)
                     THEN sHttps \o d.host ELSE d.host
         IN  IF d.basePath # <<>>
             THEN TrimSuffix(host, <<"/">>) \o <<"/">> \o TrimPrefix(d.basePath, <<"/">>)
             ELSE host

\* reqURL = TrimSuffix(baseURL, "/") + "/" + TrimPrefix(path, "/")
JoinURL(base, path) == TrimSuffix(base, <<"/">>) \o <<"/">> \o TrimPrefix(path, <<"/">>)

\* server.go (v1): fmt.Sprintf("http://%s%s%s", Host, BasePath, path)
ReqURLV1(d, path) == sHttp \o d.host \o d.basePath \o path

\* the URL template of an operation in the build that runs
ReqURL(b, d, baseUrl, path) ==
    IF b = "v1" THEN ReqURLV1(d, path) ELSE JoinURL(BaseURLHead(d, baseUrl), path)

\* toolName: method + "_" + path without "{" and "}"
ToolName(path, method) == method \o <<"_">> \o RemoveAll(RemoveAll(path, "}"), "{")

\* what CreateMCPToolHandler (or the inline handler) captures
CompileTool(b, d, baseUrl, path, method) ==
    LET parameters == d.ops[<<path, method>>].parameters
    IN  [path |-> path, method |-> method,
         reqURL |-> ReqURL(b, d, baseUrl, path),
         reqMethod |-> method,
         reqPathParam |-> ParamNames(parameters, "path"),
         reqQueryParam |-> IF b = "v1" THEN <<>> ELSE ParamNames(parameters, "query"),
         reqHeader |-> ParamNames(parameters, "header"),
         reqBody |-> BodyTypes(d, parameters)]

-----------------------------------------------------------------------------
(* Values that stand for "nothing" *)

NoPath  == <<"<no path>">>
NoCall  == [kind |-> "none"]
NoProbe == [op |-> "none"]

\* the variables of the server, parked while a pure function is probed
ServerIdle ==
    /\ doc = [kind |-> "none"]
    /\ cfg = [kind |-> "none"]
    /\ pathsLeft = {}
    /\ curPath = NoPath
    /\ methodsLeft = {}
    /\ registry = <<>>
    /\ compiled = <<>>
    /\ added = {}
    /\ last = NoCall

ServerUnchanged ==
    UNCHANGED <<build, doc, cfg, phase, pathsLeft, curPath, methodsLeft,
                registry, compiled, added, last>>

-----------------------------------------------------------------------------
(* The filter engine applied to bounded inputs *)

\* entries of the --includePaths / --excludePaths options
PatternPool ==
    { <<"/","a">>,                    \* a literal
      <<" ","^","/","b","$"," ">>,    \* anchored, with blanks around it
      <<"/","a","/",".","*">>,        \* a wildcard
      <<"(">>,                        \* does not compile
      <<" ">> }                       \* blank entry

PathOptions == {Join(l, ",") : l \in SeqsUpTo(PatternPool, MaxEntries)}

ProbePaths ==
    { <<"/","a">>, <<"/","b">>, <<"/","a","/","c">>, <<"/","b","c">>, <<"/","c">> }

\* entries of the --includeMethods / --excludeMethods options
MethodPool == { <<"g","e","t">>, <<" ","G","E","T"," ">>, <<"P","o","s","t">>, <<>> }

MethodOptions == {Join(l, ",") : l \in SeqsUpTo(MethodPool, MaxEntries)}

ProbeMethods == { <<"g","e","t">>, <<"G","E","T">>, <<"p","o","s","t">>, <<"p","u","t">> }

InitFilter ==
    /\ ServerIdle
    /\ build = "head"
    /\ phase = "probe"
    /\ \/ \E path \in ProbePaths, inc \in PathOptions, exc \in PathOptions :
             probe = [op |-> "shouldIncludePath", cand |-> path, inc |-> inc,
                      exc |-> exc, applied |-> FALSE, out |-> FALSE]
       \/ \E method \in ProbeMethods, inc \in MethodOptions, exc \in MethodOptions :
             probe = [op |-> "shouldIncludeMethod", cand |-> method, inc |-> inc,
                      exc |-> exc, applied |-> FALSE, out |-> FALSE]

ProbeIncludePath ==
    /\ phase = "probe"
    /\ probe.op = "shouldIncludePath"
    /\ ~ probe.applied
    /\ probe' = [probe EXCEPT !.applied = TRUE, !.out =
                    shouldIncludePath(probe.cand, compileRegexes(probe.inc),
                                      compileRegexes(probe.exc))]
    /\ ServerUnchanged

ProbeIncludeMethod ==
    /\ phase = "probe"
    /\ probe.op = "shouldIncludeMethod"
    /\ ~ probe.applied
    /\ probe' = [probe EXCEPT !.applied = TRUE, !.out =
                    shouldIncludeMethod(probe.cand, methodList(probe.inc),
                                        methodList(probe.exc))]
    /\ ServerUnchanged

NextFilter == ProbeIncludePath \/ ProbeIncludeMethod

SpecFilter == InitFilter /\ [][NextFilter]_vars

\* the candidate matches an exclude pattern that compiled
MatchesSomePattern(path, option) ==
    \E i \in 1..Len(Split(option, ",")) :
        LET p == TrimSpace(Split(option, ",")[i])
        IN  p # <<>> /\ RegexCompiles(p) /\ MatchString(p, path)

\* the method is an item of the list, compared as the code compares
IsListedMethod(method, option) ==
    /\ TrimSpace(option) # <<>>
    /\ \E i \in 1..Len(Split(option, ",")) :
          ToLower(TrimSpace(Split(option, ",")[i])) = ToLower(method)

\* C2: exclusion takes precedence, for paths and for methods: a candidate
\* that matches at least one exclude pattern / item is rejected whatever the
\* include list holds.
C2_ExcludeWins ==
    /\ probe.op = "shouldIncludePath" /\ probe.applied
          /\ MatchesSomePattern(probe.cand, probe.exc)
          => probe.out = FALSE
    /\ probe.op = "shouldIncludeMethod" /\ probe.applied
          /\ IsListedMethod(probe.cand, probe.exc)
          => probe.out = FALSE

\* a path that matches an include pattern and an exclude pattern was rejected
\* (the method case is reached as well, see C2_WitnessMethod)
C2_Witness ==
    /\ probe.op = "shouldIncludePath" /\ probe.applied
    /\ MatchesSomePattern(probe.cand, probe.inc)
    /\ MatchesSomePattern(probe.cand, probe.exc)
    /\ probe.out = FALSE

C2_WitnessMethod ==
    /\ probe.op = "shouldIncludeMethod" /\ probe.applied
    /\ IsListedMethod(probe.cand, probe.inc)
    /\ IsListedMethod(probe.cand, probe.exc)
    /\ probe.out = FALSE

\* the entries of a pattern list: blanks around an entry do not count
PatternEntries(option) ==
    {TrimSpace(Split(option, ",")[i]) : i \in 1..Len(Split(option, ","))} \ {<<>>}
WellFormedPatterns(option) == {p \in PatternEntries(option) : RegexCompiles(p)}
MalformedPatterns(option) == {p \in PatternEntries(option) : ~ RegexCompiles(p)}

\* the decision of the filter on the lists without their malformed patterns
DecisionOfWellFormed(path, inc, exc) ==
    /\ \/ WellFormedPatterns(inc) = {}
       \/ \E p \in WellFormedPatterns(inc) : MatchString(p, path)
    /\ ~ \E p \in WellFormedPatterns(exc) : MatchString(p, path)

\* C17: a path pattern that does not compile is dropped and the other
\* patterns keep their effect: the decision for a path is the decision
\* computed from the include and exclude lists without the malformed
\* patterns.
C17_MalformedDropped ==
    probe.op = "shouldIncludePath" /\ probe.applied =>
        probe.out = DecisionOfWellFormed(probe.cand, probe.inc, probe.exc)

\* a malformed pattern stands in front of an include pattern that accepts
\* the path and in the exclude list, and the path is accepted
C17_Witness ==
    /\ probe.op = "shouldIncludePath" /\ probe.applied
    /\ MalformedPatterns(probe.inc) # {}
    /\ MalformedPatterns(probe.exc) # {}
    /\ \E p \in WellFormedPatterns(probe.inc) : MatchString(p, probe.cand)
    /\ probe.out = TRUE

-----------------------------------------------------------------------------
(* setRequestSecurity applied to bounded inputs *)

\* the text of a well-formed entry
EntryText(passAs, name, value) == passAs \o <<":">> \o name \o <<"=">> \o value

sXApiKey == <<"X","-","A","P","I","-","K","E","Y">>
sFoo == <<"f","o","o">>
sSid == <<"s","i","d">>

EntryHeader == [wf |-> TRUE, passAs |-> sHeader, name |-> sXApiKey, value |-> <<"a","b","c">>,
                text |-> EntryText(sHeader, sXApiKey, <<"a","b","c">>)]
EntryQuery  == [wf |-> TRUE, passAs |-> sQuery, name |-> sFoo, value |-> <<"b","a","r","2">>,
                text |-> EntryText(sQuery, sFoo, <<"b","a","r","2">>)]
EntryCookie == [wf |-> TRUE, passAs |-> ToLower(sCookie), name |-> sSid, value |-> <<"c","c","c">>,
                text |-> EntryText(ToLower(sCookie), sSid, <<"c","c","c">>)]

\* an entry without ":" and one without "="
EntryNoColon  == [wf |-> FALSE, passAs |-> <<>>, name |-> <<>>, value |-> <<>>,
                  text |-> sHeader \o <<"X", "=", "a">>]
EntryNoEquals == [wf |-> FALSE, passAs |-> <<>>, name |-> <<>>, value |-> <<>>,
                  text |-> sHeader \o <<":", "X", "a">>]

\* entries of the --apiKeyAuth option
EntryPool ==
    { EntryHeader, EntryQuery, EntryCookie,
      \* blanks around every part, passAs in upper case
      [wf |-> TRUE, passAs |-> ToLower(sCookie), name |-> <<"t">>, value |-> <<"d">>,
       text |-> <<" ">> \o sCookie \o <<" ", ":", " ", "t", " ", "=", " ", "d", " ">>],
      \* a second value for the same query parameter
      [wf |-> TRUE, passAs |-> sQuery, name |-> sFoo, value |-> <<"v","3">>,
       text |-> EntryText(sQuery, sFoo, <<"v","3">>)],
      \* a header entry that names the Cookie header
      [wf |-> TRUE, passAs |-> sHeader, name |-> ToLower(sCookie), value |-> <<"z">>,
       text |-> EntryText(sHeader, ToLower(sCookie), <<"z">>)],
      \* "=" before ":"
      [wf |-> FALSE, passAs |-> <<>>, name |-> <<>>, value |-> <<>>,
       text |-> sHeader \o <<"=", "X", ":", "a">>],
      \* "=" right after ":"
      [wf |-> FALSE, passAs |-> <<>>, name |-> <<>>, value |-> <<>>,
       text |-> sHeader \o <<":", "=", "a">>],
      EntryNoColon, EntryNoEquals }

ExampleEntries == <<EntryHeader, EntryQuery, EntryCookie>>

\* a malformed entry between two well-formed ones
SkippingEntries == <<EntryHeader, EntryNoEquals, EntryCookie>>

EntryLists == SeqsUpTo(EntryPool, MaxEntries) \cup {ExampleEntries, SkippingEntries}

\* the option string of a list of entries
KeySpec(entries) == Join([i \in 1..Len(entries) |-> entries[i].text], ",")

SchemeOptions ==
    { <<>>, sBasic, sBearer, sApiKey, <<" ">> \o sApiKey \o <<" ">>,
      <<"d","i","g","e","s","t">> }

sUserPass == <<"u","s","e","r",":","p","a","s","s">>
BasicOptions  == { <<>>, sUserPass, EntryHeader.text }
BearerOptions == { <<>>, <<"t","o","k","e","n","1","2","3">> }

sExampleUrl == sHttp \o <<"e","x","a","m","p","l","e",".","c","o","m">>
EmptyMap == <<>>

ProbeRequests ==
    { [pre |-> sExampleUrl, q |-> EmptyMap, header |-> EmptyMap],
      [pre |-> sExampleUrl,
       q |-> MapSet(EmptyMap, sFoo, <<"b","a","r">>),
       header |-> HeaderSet(HeaderSet(EmptyMap, sCookie, <<"z","=","1">>),
                            sAuthorization, <<"o","l","d">>)] }

InitSecurity ==
    /\ ServerIdle
    /\ build \in {"head", "v2"}
    /\ phase = "probe"
    /\ \E security \in SchemeOptions, basicAuth \in BasicOptions,
          entries \in EntryLists, bearerAuth \in BearerOptions, req \in ProbeRequests :
          probe = [op |-> "setRequestSecurity", security |-> security,
                   basicAuth |-> basicAuth, entries |-> entries,
                   apiKeyAuth |-> KeySpec(entries), bearerAuth |-> bearerAuth,
                   req |-> req, applied |-> FALSE, out |-> req]

ProbeSecurity ==
    /\ phase = "probe"
    /\ probe.op = "setRequestSecurity"
    /\ ~ probe.applied
    /\ probe' = [probe EXCEPT !.applied = TRUE, !.out =
                    setRequestSecurity(build, probe.req, probe.security, probe.basicAuth,
                                       probe.apiKeyAuth, probe.bearerAuth)]
    /\ ServerUnchanged

NextSecurity == ProbeSecurity

SpecSecurity == InitSecurity /\ [][NextSecurity]_vars

\* entry j aims at the header that entry i set
HitsHeader(ej, name) ==
    /\ ej.wf
    /\ \/ ej.passAs = sHeader /\ CanonicalHeaderKey(ej.name) = CanonicalHeaderKey(name)
       \/ ej.passAs = ToLower(sCookie) /\ CanonicalHeaderKey(name) = sCookie

\* a security run with the apiKey scheme and a non-empty key spec
ApiKeyRun ==
    /\ probe.op = "setRequestSecurity" /\ probe.applied
    /\ TrimSpace(probe.security) = sApiKey
    /\ probe.apiKeyAuth # <<>>

\* C8: with scheme apiKey every well-formed entry passAs:name=value, passAs in
\* {header, query, cookie}, is applied to its own location: the header / query
\* parameter holds exactly the entry's value (replacing what the request
\* held) and the Cookie header contains name=value, unless a later entry of
\* the list writes the same header or query parameter again.
C8_ApiKeyApplied ==
    ApiKeyRun =>
      \A i \in 1..Len(probe.entries) :
        LET e == probe.entries[i]
            n == Len(probe.entries)
            headerRewritten ==
                \E j \in 1..n :
                    /\ j # i
                    /\ (j > i \/ probe.entries[j].passAs = ToLower(sCookie))
                    /\ HitsHeader(probe.entries[j], e.name)
            queryRewritten ==
                \E j \in (i+1)..n :
                    /\ probe.entries[j].wf
                    /\ probe.entries[j].passAs = sQuery
                    /\ probe.entries[j].name = e.name
            cookieRewritten ==
                \E j \in (i+1)..n :
                    /\ probe.entries[j].passAs = sHeader
                    /\ HitsHeader(probe.entries[j], sCookie)
            cookieHeader == HeaderGet(probe.out.header, sCookie)
        IN  /\ (e.wf /\ e.passAs = sHeader /\ ~ headerRewritten)
                 => /\ CanonicalHeaderKey(e.name) \in DOMAIN probe.out.header
                    /\ probe.out.header[CanonicalHeaderKey(e.name)] = <<e.value>>
            /\ (e.wf /\ e.passAs = sQuery /\ ~ queryRewritten)
                 => /\ e.name \in DOMAIN probe.out.q
                    /\ probe.out.q[e.name] = <<e.value>>
            /\ (e.wf /\ e.passAs = ToLower(sCookie) /\ ~ cookieRewritten)
                 => Contains(cookieHeader, e.name \o <<"=">> \o e.value)

\* the example of the claim, on a request that already carries foo=bar
C8_Witness ==
    /\ ApiKeyRun
    /\ probe.entries = ExampleEntries
    /\ probe.req.q = MapSet(EmptyMap, sFoo, <<"b","a","r">>)
    /\ HeaderGet(probe.out.header, sXApiKey) = <<"a","b","c">>
    /\ probe.out.q[sFoo] = << <<"b","a","r","2">> >>
    /\ Contains(HeaderGet(probe.out.header, sCookie), sSid \o <<"=", "c","c","c">>)

\* what one well-formed entry does to a request
WithEntry(req, e) ==
    CASE e.passAs = sHeader ->
           [req EXCEPT !.header = MapSet(@, CanonicalHeaderKey(e.name), e.value)]
      [] e.passAs = sQuery ->
           [req EXCEPT !.q = MapSet(@, e.name, e.value)]
      [] e.passAs = ToLower(sCookie) ->
           [req EXCEPT !.header =
               MapSet(@, sCookie,
                      IF MapGet(@, sCookie) # <<>>
                      THEN MapGet(@, sCookie) \o <<";", " ">> \o e.name \o <<"=">> \o e.value
                      ELSE e.name \o <<"=">> \o e.value)]

RECURSIVE WithEntries(_, _)
WithEntries(req, entries) ==
    IF entries = <<>> THEN req
    ELSE WithEntries(WithEntry(req, Head(entries)), Tail(entries))

WellFormedEntries(entries) == SelectSeq(entries, LAMBDA e : e.wf)

\* C18: in the apiKey scheme an entry without ":" or without "=", or whose
\* "=" is not at least two positions after the first ":", is skipped, and
\* the well-formed entries before and after it are applied: the request is
\* the one that the list without its malformed entries produces.
C18_MalformedSkipped ==
    ApiKeyRun /\ build = "head" =>
        probe.out = WithEntries(probe.req, WellFormedEntries(probe.entries))

\* the header entry before and the cookie entry after an entry without "="
\* are both on the request
C18_Witness ==
    /\ ApiKeyRun /\ build = "head"
    /\ probe.entries = SkippingEntries
    /\ HeaderGet(probe.out.header, sXApiKey) = <<"a","b","c">>
    /\ Contains(HeaderGet(probe.out.header, sCookie), sSid \o <<"=", "c","c","c">>)
    /\ probe.out = WithEntries(probe.req, <<EntryHeader, EntryCookie>>)

SelectedCredentialEmpty ==
    LET sel == TrimSpace(probe.security)
    IN  \/ sel \notin {sBasic, sBearer, sApiKey}
        \/ sel = sBasic /\ probe.basicAuth = <<>>
        \/ sel = sBearer /\ probe.bearerAuth = <<>>
        \/ sel = sApiKey /\ probe.apiKeyAuth = <<>>

\* C9: setRequestSecurity changes the request only according to the selected
\* scheme and that scheme's own credential: nothing changes with an empty or
\* unrecognized scheme or an empty credential of the selected scheme; basic
\* and bearer set the Authorization header and nothing else.
C9_OnlySelectedScheme ==
    probe.op = "setRequestSecurity" /\ probe.applied =>
      LET sel == TrimSpace(probe.security)
      IN  /\ SelectedCredentialEmpty => probe.out = probe.req
          /\ sel = sBasic /\ probe.basicAuth # <<>> =>
                probe.out = [probe.req EXCEPT !.header =
                    MapSet(probe.req.header, sAuthorization,
                           <<"Basic ">> \o EncodeToString(probe.basicAuth))]
          /\ sel = sBearer /\ probe.bearerAuth # <<>> =>
                probe.out = [probe.req EXCEPT !.header =
                    MapSet(probe.req.header, sAuthorization,
                           <<"Bearer ">> \o probe.bearerAuth)]

\* base64("user:pass") is what the Authorization header holds
C9_BasicExample ==
    probe.op = "setRequestSecurity" /\ probe.applied
      /\ TrimSpace(probe.security) = sBasic /\ probe.basicAuth = sUserPass
      => HeaderGet(probe.out.header, sAuthorization)
           = <<"Basic ", "d","X","N","l","c","j","p","w","Y","X","N","z">>

-----------------------------------------------------------------------------
(* Request dispatcher: CreateMCPToolHandler and the inline handler of v1 *)

\* values of request.Params.Arguments: a JSON string, or a JSON number
Str(s) == [t |-> "string", s |-> s]
NotStr == [t |-> "number", s |-> <<>>]

\* values of reqBodyData, as encoding/json writes them: a JSON string, an
\* integer, a boolean, a finite float, the text of an array or an object,
\* or a float that json.Marshal rejects
JString(s) == [t |-> "string",  s |-> s,    n |-> 0, b |-> FALSE]
JNumber(n) == [t |-> "number",  s |-> <<>>, n |-> n, b |-> FALSE]
JBool(b)   == [t |-> "boolean", s |-> <<>>, n |-> 0, b |-> b]
JFloat(s)  == [t |-> "float",   s |-> s,    n |-> 0, b |-> FALSE]
JRaw(s)    == [t |-> "json",    s |-> s,    n |-> 0, b |-> FALSE]
JNonFinite == [t |-> "NaN/Inf", s |-> <<>>, n |-> 0, b |-> FALSE]
JNothing   == [t |-> "unset",   s |-> <<>>, n |-> 0, b |-> FALSE]

\* the type assertion Arguments[name].(string)
IsString(args, name) == name \in DOMAIN args /\ args[name].t = "string"
\* its first result: the zero value "" when the assertion fails
ArgText(args, name) == IF IsString(args, name) THEN args[name].s ELSE <<>>

\* a loop over parameter names that never reports a name
FirstNotString_Never(names, args) == 0

\* the first name of a "for _, name := range names" loop whose argument is
\* not a string; 0 when every argument is one
FirstNotString(names, args) ==
    LET bad == {i \in 1..Len(names) : ~ IsString(args, names[i])}
    IN  IF bad = {} THEN 0 ELSE CHOOSE i \in bad : \A j \in bad : i <= j

\* the path loop after its first upto parameters
RECURSIVE SubstitutePath(_, _, _, _)
SubstitutePath(url, names, args, upto) ==
    IF upto = 0 THEN url
    ELSE ReplaceFirst(SubstitutePath(url, names, args, upto - 1),
                      <<"{">> \o names[upto] \o <<"}">>, ArgText(args, names[upto]))

IsDigitC(c) == \E i \in 1..10 : Digits[i] = c
DigitVal(c) == (CHOOSE i \in 1..10 : Digits[i] = c) - 1
IsHexC(c) == IsDigitC(c) \/ c \in {"a","b","c","d","e","f","A","B","C","D","E","F"}

\* url.Parse succeeds: every "%" starts an escape of two hex digits
URLParses(u) ==
    \A i \in 1..Len(u) : u[i] = "%" => i + 2 <= Len(u) /\ IsHexC(u[i+1]) /\ IsHexC(u[i+2])

\* u.Query(): the values of the query string, which starts after the first
\* "?", by name and in the order of their pairs name=value
RECURSIVE ParseQuery(_, _)
ParseQuery(q, pairs) ==
    IF pairs = <<>> THEN q
    ELSE LET pair == Head(pairs)
             eq   == Index(pair, <<"=">>)
         IN  ParseQuery(IF pair = <<>> THEN q
                        ELSE IF eq = 0 THEN MapAdd(q, pair, <<>>)
                        ELSE MapAdd(q, SubSeq(pair, 1, eq - 1), SubSeq(pair, eq + 1, Len(pair))),
                        Tail(pairs))
URLQuery(u) ==
    IF Index(u, <<"?">>) = 0 THEN <<>>
    ELSE ParseQuery(<<>>, Split(SubSeq(u, Index(u, <<"?">>) + 1, Len(u)), "&"))

\* the request has a scheme that http.Client supports
HasScheme(u) == HasPrefix(u, sHttp) \/ HasPrefix(u, sHttps)

RECURSIVE DecimalValue(_)
DecimalValue(s) ==
    IF s = <<>> THEN 0
    ELSE 10 * DecimalValue(SubSeq(s, 1, Len(s) - 1)) + DigitVal(s[Len(s)])

Unsigned(s) == IF s # <<>> /\ s[1] \in {"+", "-"} THEN Tail(s) ELSE s
AllDigits(s) == s # <<>> /\ \A i \in 1..Len(s) : IsDigitC(s[i])

\* strconv.Atoi, for texts short enough to fit an int
AtoiOk(s) == AllDigits(Unsigned(s))
Atoi(s) == IF s[1] = "-" THEN 0 - DecimalValue(Unsigned(s)) ELSE DecimalValue(Unsigned(s))

\* strconv.ParseBool
BoolTrue  == { <<"1">>, <<"t">>, <<"T">>, <<"T","R","U","E">>, <<"t","r","u","e">>,
               <<"T","r","u","e">> }
BoolFalse == { <<"0">>, <<"f">>, <<"F">>, <<"F","A","L","S","E">>, <<"f","a","l","s","e">>,
               <<"F","a","l","s","e">> }

\* strconv.ParseFloat, for decimal texts without exponent: a finite number,
\* or the special values, which parse without error
IsDecimalText(s) ==
    LET u   == Unsigned(s)
        dot == Index(u, <<".">>)
        int == IF dot = 0 THEN u ELSE SubSeq(u, 1, dot - 1)
        frc == IF dot = 0 THEN <<>> ELSE SubSeq(u, dot + 1, Len(u))
    IN  /\ int \o frc # <<>>
        /\ \A i \in 1..Len(int) : IsDigitC(int[i])
        /\ \A i \in 1..Len(frc) : IsDigitC(frc[i])
IsSpecialFloat(s) ==
    \/ ToLower(s) = <<"n","a","n">>
    \/ ToLower(Unsigned(s)) \in { <<"i","n","f">>, <<"i","n","f","i","n","i","t","y">> }

\* json.Unmarshal into []interface{} / map[string]interface{} succeeds, for
\* the JSON texts of the model
JSONArrayTexts  == { <<"[","]">>, <<"[","1","]">>, <<"n","u","l","l">> }
JSONObjectTexts == { <<"{","}">>, <<"n","u","l","l">> }

\* a type switch that stores every argument as it came
CoerceField_AllStrings(paramType, args, name) ==
    [ok |-> IsString(args, name), why |-> "missing", val |-> JString(ArgText(args, name))]

\* one iteration of the loop over reqBody: the value stored in reqBodyData,
\* or why the handler returns
CoerceField(paramType, args, name) ==
    LET paramStr == ArgText(args, name)
        stored(v) == [ok |-> TRUE, why |-> "", val |-> v]
        fails(w)  == [ok |-> FALSE, why |-> w, val |-> JNothing]
    IN  IF ~ IsString(args, name) THEN fails("missing")
        ELSE IF paramType = "string" THEN stored(JString(paramStr))
        ELSE IF paramType \in {"int", "integer"}
        THEN IF AtoiOk(paramStr) THEN stored(JNumber(Atoi(paramStr))) ELSE fails("int")
        ELSE IF paramType = "float"
        THEN IF IsSpecialFloat(paramStr) THEN stored(JNonFinite)
             ELSE IF IsDecimalText(paramStr) THEN stored(JFloat(paramStr))
             ELSE fails("float")
        ELSE IF paramType \in {"bool", "boolean"}
        THEN IF paramStr \in BoolTrue THEN stored(JBool(TRUE))
             ELSE IF paramStr \in BoolFalse THEN stored(JBool(FALSE))
             ELSE fails("bool")
        ELSE IF paramType = "array"
        THEN IF paramStr \in JSONArrayTexts THEN stored(JRaw(paramStr)) ELSE fails("array")
        ELSE IF paramType = "object"
        THEN IF paramStr \in JSONObjectTexts THEN stored(JRaw(paramStr)) ELSE fails("object")
        ELSE fails("unsupported")

\* the body fields on which the loop over reqBody returns an error; Go
\* visits a map in any order, so any of them can be the one reported
FailingFields(tool, args) ==
    {n \in DOMAIN tool.reqBody : ~ CoerceField(tool.reqBody[n], args, n).ok}

\* json.Marshal(reqBodyData) fails
MarshalFails(bodyData) == \E n \in DOMAIN bodyData : bodyData[n] = JNonFinite

\* mcp.NewToolResultError(fmt.Sprintf(...)) and the nil error returned
\* with it; v1 writes its messages without the "[Error]" prefix
ErrorResult(b, msgHead, msgV1, rest) ==
    [isError |-> TRUE,
     text |-> IF b = "v1" THEN <<msgV1>> \o rest ELSE <<"[Error]", msgHead>> \o rest,
     err |-> "nil"]

\* the message of a failed body field
BodyError(b, paramType, why, name) ==
    IF why = "missing"
    THEN ErrorResult(b, " missing Body Parameter: ", "Missing Body Parameter: ", name)
    ELSE IF why = "unsupported"
    THEN ErrorResult(b, " unsupported parameter type: ", "Unsupported parameter type: ",
                     <<paramType, " for ">> \o name)
    ELSE ErrorResult(b, " invalid type for parameter ", "Invalid type for parameter ",
                     name \o <<", expected ", why>>)

\* what the remote end does with a request
NoResponse == [kind |-> "none", status |-> 0, body |-> <<>>]
Outcomes ==
    { [kind |-> "neterr",  status |-> 0,   body |-> <<>>],
      [kind |-> "readerr", status |-> 200, body |-> <<>>],
      [kind |-> "ok", status |-> 200, body |-> <<"{","}">>],
      [kind |-> "ok", status |-> 404, body |-> <<"n","o">>],
      [kind |-> "ok", status |-> 500, body |-> <<>>] }

\* a handler that reports a status of 400 and above as an error
ResponseResult_StatusChecked(b, outcome) ==
    IF outcome.kind = "ok" /\ outcome.status < 400
    THEN [isError |-> FALSE, text |-> outcome.body, err |-> "nil"]
    ELSE ErrorResult(b, " failed to make HTTP request: ", "Failed to make HTTP request: ",
                     <<"<err>">>)

\* client.Do, io.ReadAll and the result built from them
ResponseResult(b, outcome) ==
    IF outcome.kind = "neterr"
    THEN ErrorResult(b, " failed to make HTTP request: ", "Failed to make HTTP request: ",
                     <<"<err>">>)
    ELSE IF outcome.kind = "readerr"
    THEN ErrorResult(b, " failed to read HTTP Response: ", "Failed to read HTTP Response: ",
                     <<"<err>">>)
    ELSE [isError |-> FALSE, text |-> outcome.body, err |-> "nil"]

\* a query loop that appends with q.Add
RECURSIVE SetQuery_Adds(_, _, _)
SetQuery_Adds(q, names, args) ==
    IF names = <<>> THEN q
    ELSE SetQuery_Adds(MapAdd(q, Head(names), ArgText(args, Head(names))), Tail(names), args)

\* q.Set(name, val) for every query parameter
RECURSIVE SetQuery(_, _, _)
SetQuery(q, names, args) ==
    IF names = <<>> THEN q
    ELSE SetQuery(MapSet(q, Head(names), ArgText(args, Head(names))), Tail(names), args)

\* req.Header.Add(headerName, headerValue) for every header parameter
RECURSIVE AddHeaderParams(_, _, _)
AddHeaderParams(h, names, args) ==
    IF names = <<>> THEN h
    ELSE AddHeaderParams(HeaderAdd(h, Head(names), ArgText(args, Head(names))),
                         Tail(names), args)

\* part_001: the custom headers of ApiConfig.Headers, name1=value1,name2=value2
RECURSIVE ApplyCustomHeaders(_, _)
ApplyCustomHeaders(h, pairs) ==
    IF pairs = <<>> THEN h
    ELSE LET pair == TrimSpace(Head(pairs))
             eq   == Index(pair, <<"=">>)
             key  == TrimSpace(SubSeq(pair, 1, eq - 1))
         IN  ApplyCustomHeaders(
                 IF pair = <<>> \/ eq = 0 \/ key = <<>> THEN h
                 ELSE HeaderAdd(h, key, TrimSpace(SubSeq(pair, eq + 1, Len(pair)))),
                 Tail(pairs))

\* part_001, CreateServer: the context function of the SSE server copies
\* the configured headers of the inbound request, and the handler sets each
\* of them on the outbound request (keys with one canonical form
\* read the same inbound header, so the order of the map does not show)
SseActive(b, c) == b = "head" /\ c.SseMode /\ Len(c.SseHeaders) # 0
\* forwarded headers added as further values
RECURSIVE ApplySseHeaders_Adds(_, _, _)
ApplySseHeaders_Adds(h, keys, inbound) ==
    IF keys = <<>> THEN h
    ELSE ApplySseHeaders_Adds(HeaderAdd(h, Head(keys), HeaderGet(inbound, Head(keys))),
                              Tail(keys), inbound)

RECURSIVE ApplySseHeaders(_, _, _)
ApplySseHeaders(h, keys, inbound) ==
    IF keys = <<>> THEN h
    ELSE ApplySseHeaders(HeaderSet(h, Head(keys), HeaderGet(inbound, Head(keys))),
                         Tail(keys), inbound)

sApplicationJson == <<"application/json">>
NoRequest == [pre |-> <<>>, q |-> EmptyMap, header |-> EmptyMap, method |-> <<>>,
              body |-> EmptyMap]

\* currentReqURL after the path loop, which stops at the first parameter
\* that is not a string
CurrentReqURL(tool, args) ==
    SubstitutePath(tool.reqURL, tool.reqPathParam, args,
                   IF FirstNotString(tool.reqPathParam, args) = 0
                   THEN Len(tool.reqPathParam)
                   ELSE FirstNotString(tool.reqPathParam, args) - 1)

\* reqBodyData after the loop over reqBody
BodyData(tool, args) ==
    [n \in DOMAIN tool.reqBody |-> CoerceField(tool.reqBody[n], args, n).val]

\* the statement from which the handler returns: one of its error returns,
\* in the order of the code, or client.Do ("do")
ReturnStage(tool, args, pick, currentReqURL) ==
    IF FirstNotString(tool.reqPathParam, args) # 0 THEN "path"
    ELSE IF Len(tool.reqQueryParam) > 0 /\ ~ URLParses(currentReqURL) THEN "parse"
    ELSE IF Len(tool.reqQueryParam) > 0 /\ FirstNotString(tool.reqQueryParam, args) # 0
    THEN "query"
    ELSE IF pick \in FailingFields(tool, args) THEN "body"
    ELSE IF MarshalFails(BodyData(tool, args)) THEN "marshal"
    ELSE IF ~ URLParses(currentReqURL) THEN "request"
    ELSE IF FirstNotString(tool.reqHeader, args) # 0 THEN "header"
    ELSE IF ~ HasScheme(currentReqURL) THEN "scheme"
    ELSE "do"

\* the error result of a return before the request is sent
StageError(b, tool, args, pick, stage) ==
    CASE stage = "path" ->
           ErrorResult(b, " missing or invalid Path Parameter: ",
                       "Missing or invalid Path Parameter: ",
                       tool.reqPathParam[FirstNotString(tool.reqPathParam, args)])
      [] stage = "parse" ->
           ErrorResult(b, " failed to parse URL: ", "", <<"<err>">>)
      [] stage = "query" ->
           ErrorResult(b, " missing or invalid Query Parameter: ", "",
                       tool.reqQueryParam[FirstNotString(tool.reqQueryParam, args)])
      [] stage = "body" ->
           BodyError(b, tool.reqBody[pick], CoerceField(tool.reqBody[pick], args, pick).why,
                     pick)
      [] stage = "marshal" ->
           ErrorResult(b, " failed to marshal request body: ",
                       "Failed to marshal request body: ", <<"<err>">>)
      [] stage = "request" ->
           ErrorResult(b, " failed to create HTTP request: ",
                       "Failed to create HTTP request: ", <<"<err>">>)
      [] stage = "header" ->
           ErrorResult(b, " missing or invalid Header: ", "Missing or invalid Header: ",
                       tool.reqHeader[FirstNotString(tool.reqHeader, args)])
      [] OTHER ->
           ErrorResult(b, " failed to make HTTP request: ", "Failed to make HTTP request: ",
                       <<"<err>">>)

\* http.NewRequest and the header parameters; v1 stops here.  pre is the
\* URL after the path loop and q the query of the URL of the request: the
\* values found in pre, with those of the query parameters set over them
NewRequest(tool, args, currentReqURL) ==
    [pre |-> currentReqURL,
     q |-> SetQuery(URLQuery(currentReqURL), tool.reqQueryParam, args),
     header |-> AddHeaderParams(EmptyMap, tool.reqHeader, args),
     method |-> ToUpper(tool.reqMethod),
     body |-> BodyData(tool, args)]

\* req.Header.Set("Content-Type", "application/json")
WithContentType(req) ==
    [req EXCEPT !.header = HeaderSet(@, sContentType, sApplicationJson)]

\* the custom headers and the forwarded SSE headers, applied in this order
WithCustomHeaders(c, req) ==
    [req EXCEPT !.header =
        ApplyCustomHeaders(@, IF c.Headers # <<>> THEN Split(c.Headers, ",") ELSE <<>>)]
WithSseHeaders(c, inbound, req) ==
    [req EXCEPT !.header =
        ApplySseHeaders(@, IF SseActive("head", c) THEN Split(c.SseHeaders, ",") ELSE <<>>,
                        inbound)]

\* the request that client.Do sends
OutboundRequest(b, tool, c, args, inbound, currentReqURL) ==
    IF b = "v1" THEN NewRequest(tool, args, currentReqURL)
    ELSE WithSseHeaders(c, inbound,
            WithCustomHeaders(c,
               setRequestSecurityHead(
                  WithContentType(NewRequest(tool, args, currentReqURL)),
                  c.Security, c.BasicAuth, c.ApiKeyAuth, c.BearerAuth)))

NoResult == [isError |-> FALSE, text |-> <<>>, err |-> "nil"]

\* a handler that calls client.Do again when the call failed
DoCalls_Retries(stage, outcome) ==
    IF stage = "do" /\ outcome.kind = "neterr" THEN 2
    ELSE IF stage \in {"scheme", "do"} THEN 1 ELSE 0

\* how often a run calls client.Do: once when it gets there, whatever the
\* call returns
DoCalls(stage, outcome) == IF stage \in {"scheme", "do"} THEN 1 ELSE 0

HandleFrom(b, tool, c, args, inbound, pick, currentReqURL, stage) ==
    [stage  |-> stage,
     sent   |-> stage = "do",
     req    |-> IF stage = "do"
                THEN OutboundRequest(b, tool, c, args, inbound, currentReqURL)
                ELSE NoRequest,
     result |-> IF stage = "do" THEN NoResult ELSE StageError(b, tool, args, pick, stage),
     bound  |-> IF stage = "do" THEN NewRequest(tool, args, currentReqURL).q ELSE EmptyMap,
     reqURL |-> IF b = "v1" THEN currentReqURL ELSE tool.reqURL]

HandleAt(b, tool, c, args, inbound, pick, currentReqURL) ==
    HandleFrom(b, tool, c, args, inbound, pick, currentReqURL,
               ReturnStage(tool, args, pick, currentReqURL))

\* one run of the handler of a tool up to client.Do: the statement it
\* returns from, whether client.Do sends the request, the request, the
\* error result of an earlier return, the query of currentReqURL when
\* http.NewRequest takes it, and the captured reqURL afterwards
\* (v1 assigns to it in the path loop)
Handle(b, tool, c, args, inbound, pick) ==
    HandleAt(b, tool, c, args, inbound, pick, CurrentReqURL(tool, args))

-----------------------------------------------------------------------------
(* The documents, configurations and invocations of the model *)

sGet  == <<"g","e","t">>
sPost == <<"p","o","s","t">>
sId   == <<"i","d">>
sQ    == <<"q">>
sName == <<"n","a","m","e">>
sAge  == <<"a","g","e">>
sActive == <<"a","c","t","i","v","e">>
sW    == <<"w">>

PathUser    == <<"/","u","/","{","i","d","}">>
PathPing    == <<"/","p">>
PathMeasure == <<"/","m">>

\* models.Parameter
\* models.Parameter; the documents of the model mark their path parameters as
\* required and leave the flag off everywhere else
Param(name, in, schema) ==
    [name |-> name, in |-> in, required |-> in = "path", type |-> <<>>, schema |-> schema]

\* a Swagger 2.0 document: an operation with a parameter of every location,
\* whose body schema has a string, an int and a bool property; an operation
\* with a Cookie header parameter; one whose body schema is not among the
\* definitions; one with a float
DocPet ==
    [openapi  |-> <<>>,
     host     |-> <<"h">>,
     basePath |-> <<"/","v","1">>,
     servers  |-> <<>>,
     components |-> EmptyMap,
     ops |->
        (<<PathUser, sPost>> :>
            [parameters |->
                << Param(sId, "path", NoSchema),
                   Param(sQ, "query", NoSchema),
                   Param(sAuthorization, "header", NoSchema),
                   Param(<<"b">>, "body", SchemaRef(<<"#","/","d","/","U">>)) >>])
        @@ (<<PathPing, sGet>> :>
            [parameters |-> << Param(sCookie, "header", NoSchema) >>])
        @@ (<<PathPing, sPost>> :>
            [parameters |-> << Param(<<"b">>, "body", SchemaRef(<<"#","/","d","/","X">>)) >>])
        @@ (<<PathMeasure, sPost>> :>
            [parameters |-> << Param(<<"b">>, "body", SchemaRef(<<"#","/","d","/","M">>)) >>]),
     definitions |->
        (<<"U">> :> [properties |-> (sName :> "string" @@ sAge :> "int" @@ sActive :> "bool")])
        @@ (<<"M">> :> [properties |-> (sW :> "float")])]

\* a document with a body parameter that has no schema
DocNoSchema ==
    [openapi  |-> <<>>,
     host     |-> <<"h">>,
     basePath |-> <<>>,
     servers  |-> <<>>,
     components |-> EmptyMap,
     ops |->
        (<<PathPing, sGet>> :> [parameters |-> <<>>])
        @@ (<<PathMeasure, sPost>> :> [parameters |-> << Param(<<"b">>, "body", NoSchema) >>]),
     definitions |-> EmptyMap]

\* a document with two path templates that differ only in their braces, and
\* with a body schema that has a property of type "number"
sCnt == <<"c","n","t">>
PathCount == <<"/","n">>
PathUserId == <<"/","u","/","i","d">>
DocCollide ==
    [openapi  |-> <<>>,
     host     |-> <<"h">>,
     basePath |-> <<>>,
     servers  |-> <<>>,
     components |-> EmptyMap,
     ops |->
        (<<PathUser, sGet>> :> [parameters |-> << Param(sId, "path", NoSchema) >>])
        @@ (<<PathUserId, sGet>> :> [parameters |-> << Param(sQ, "query", NoSchema) >>])
        @@ (<<PathCount, sPost>> :>
            [parameters |-> << Param(<<"b">>, "body", SchemaRef(<<"#","/","d","/","N">>)) >>]),
     definitions |-> (<<"N">> :> [properties |-> (sCnt :> "number" @@ sAge :> "int")])]

\* an OpenAPI 3.0 document whose body schema is in components.schemas, with
\* an operation of two path parameters
sK == <<"k">>
PathPair == <<"/","u","/","{","i","d","}","/","{","k","}">>
DocOpenAPI ==
    [openapi  |-> <<"3",".","0",".","0">>,
     host     |-> <<>>,
     basePath |-> <<>>,
     servers  |-> << sHttps \o <<"a","/">> >>,
     components |-> (<<"M">> :> [properties |-> (sW :> "float")]),
     ops |->
        (<<PathMeasure, sPost>> :>
            [parameters |->
                << Param(<<"b">>, "body", SchemaRef(<<"#","/","c","/","s","/","M">>)) >>])
        @@ (<<PathPair, sGet>> :>
            [parameters |-> << Param(sId, "path", NoSchema), Param(sK, "path", NoSchema) >>]),
     definitions |-> EmptyMap]

Docs == {DocPet, DocNoSchema, DocCollide, DocOpenAPI}

Paths(d) == {k[1] : k \in DOMAIN d.ops}
MethodsOf(d, path) == {k[2] : k \in {x \in DOMAIN d.ops : x[1] = path}}

\* models.ApiConfig, with SseCfg.SseMode
CfgNone ==
    [IncludePaths |-> <<>>, ExcludePaths |-> <<>>, IncludeMethods |-> <<>>,
     ExcludeMethods |-> <<>>, BaseUrl |-> <<>>, Security |-> <<>>, BasicAuth |-> <<>>,
     ApiKeyAuth |-> <<>>, BearerAuth |-> <<>>, Headers |-> <<>>, SseHeaders |-> <<>>,
     SseMode |-> FALSE]

FilterConfigs ==
    { [CfgNone EXCEPT !.IncludePaths = <<"/","u",",","/","p">>,
                      !.ExcludeMethods = <<" ","G","E","T"," ">>],
      [CfgNone EXCEPT !.ExcludePaths = <<"^","/","p","$",",","(">>],
      [CfgNone EXCEPT !.IncludeMethods = <<"g","e","t",",","P","O","S","T">>,
                      !.ExcludePaths = <<"/","m">>],
      [CfgNone EXCEPT !.IncludePaths = <<"/","p",",","/","m">>,
                      !.ExcludePaths = <<"/",".","*","m">>,
                      !.BaseUrl = sHttp \o <<"b","/">>] }

sToken == <<"t","o","k">>
sKeyAuthorization ==
    <<"h","e","a","d","e","r",":">> \o sAuthorization \o <<"=","k",",",
      "c","o","o","k","i","e",":","s","i","d","=","c">>
sKeyQuery == <<"q","u","e","r","y",":","q","=","z">>

sCustomHeaders == sAuthorization \o <<"=","x",","," ">> \o sCookie \o <<"=","y">>

CfgBasic  == [CfgNone EXCEPT !.Security = sBasic, !.BasicAuth = <<"u",":","p">>]
CfgBearer == [CfgNone EXCEPT !.Security = sBearer, !.BearerAuth = sToken,
                             !.BasicAuth = <<"u",":","p">>]
CfgApiKey == [CfgNone EXCEPT !.Security = sApiKey, !.ApiKeyAuth = sKeyAuthorization,
                             !.BearerAuth = sToken]

sForwardKeys == ToLower(sAuthorization) \o <<",">> \o sCookie
CfgForward == [CfgBasic EXCEPT !.Headers = sCustomHeaders, !.SseHeaders = sForwardKeys,
                               !.SseMode = TRUE]

\* a security scheme; with part_001's custom headers or forwarded SSE headers
SecurityConfigs ==
    { CfgNone, CfgBasic, CfgBearer, CfgApiKey,
      [CfgNone EXCEPT !.Security = sApiKey, !.ApiKeyAuth = sKeyQuery],
      [CfgBasic EXCEPT !.Headers = sCustomHeaders],
      [CfgApiKey EXCEPT !.Headers = sCustomHeaders],
      [CfgBearer EXCEPT !.SseHeaders = sAuthorization, !.SseMode = TRUE],
      [CfgNone EXCEPT !.SseHeaders = sAuthorization, !.SseMode = TRUE],
      CfgForward }

\* v1 has no options
Configs(b) ==
    IF b = "v1" THEN {CfgNone}
    ELSE FilterConfigs \cup SecurityConfigs

\* the headers of the inbound request of the SSE connection
Inbounds == { EmptyMap, HeaderSet(EmptyMap, sAuthorization, <<"f","w","d">>) }

\* an argument that lets the invocation pass, and the other values tried
GoodArg(name) ==
    CASE name = sId -> <<"A">>
      [] name = sQ -> <<"x">>
      [] name = <<"k">> -> <<"K">>
      [] name = sAuthorization -> <<"o","l","d">>
      [] name = sCookie -> <<"z","=","1">>
      [] name = sName -> <<"b","o","b">>
      [] name = sAge -> <<"4","2">>
      [] name = sActive -> <<"t","r","u","e">>
      [] name = sW -> <<"1",".","5">>
      [] OTHER -> <<>>

OtherArgs(name) ==
    CASE name = sId -> { Str(<<"B">>), Str(<<"%">>), NotStr,
                          Str(<<"A","?","q","=","o","&","q","=","p">>),
                          Str(<<"{","k","}">>) }
      [] name = sAge -> { Str(<<"-","7">>), Str(<<"x">>) }
      [] name = sActive -> { Str(<<"F">>), Str(<<"m","a","y","b","e">>) }
      [] name = sW -> { Str(<<"N","a","N">>), Str(<<"-","I","n","f">>), Str(<<"x">>) }
      [] OTHER -> { NotStr }

\* the names a tool takes from the arguments
ArgNames(tool) ==
    {tool.reqPathParam[i] : i \in 1..Len(tool.reqPathParam)}
    \cup {tool.reqQueryParam[i] : i \in 1..Len(tool.reqQueryParam)}
    \cup {tool.reqHeader[i] : i \in 1..Len(tool.reqHeader)}
    \cup DOMAIN tool.reqBody

\* the argument maps tried on a tool: all good, one argument changed, one
\* argument absent, two body fields absent
ArgSets(tool) ==
    LET names == ArgNames(tool)
        base  == [n \in names |-> Str(GoodArg(n))]
    IN  {base}
        \cup {[base EXCEPT ![n] = v] : <<n, v>> \in
                 UNION {{<<m, w>> : w \in OtherArgs(m)} : m \in names}}
        \cup {[n \in names \ {a} |-> base[n]] : a \in names}
        \cup {[n \in names \ {a, b} |-> base[n]] : a \in DOMAIN tool.reqBody,
                                                    b \in DOMAIN tool.reqBody}

-----------------------------------------------------------------------------
(* The server: main, CreateServer, LoadSwaggerServer, tool invocations *)

\* a filter that lets every method through
MethodEligible_Always(b, c, method) == TRUE

\* the filter decisions of LoadSwaggerServer (v1 has no filters)
PathEligible(b, c, path) ==
    b = "v1" \/ shouldIncludePath(path, compileRegexes(c.IncludePaths),
                                  compileRegexes(c.ExcludePaths))
MethodEligible(b, c, method) ==
    b = "v1" \/ shouldIncludeMethod(method, methodList(c.IncludeMethods),
                                    methodList(c.ExcludeMethods))

Init ==
    /\ build \in {"head", "v1"}
    /\ doc \in Docs
    /\ cfg \in Configs(build)
    /\ phase = "extract"
    /\ pathsLeft = {}
    /\ curPath = NoPath
    /\ methodsLeft = {}
    /\ registry = EmptyMap
    /\ compiled = EmptyMap
    /\ added = {}
    /\ last = NoCall
    /\ probe = NoProbe

\* main: swagger.ExtractSwagger(swaggerSpec) runs over every operation
\* before CreateServer and reads param.Schema.Ref of every body parameter
ExtractSwagger ==
    /\ phase = "extract"
    /\ IF \E k \in DOMAIN doc.ops :
             \E i \in 1..Len(doc.ops[k].parameters) : DerefPanics(doc.ops[k].parameters[i])
       THEN /\ phase' = "crashed"
            /\ UNCHANGED pathsLeft
       ELSE /\ phase' = "compile"
            /\ pathsLeft' = Paths(doc)
    /\ UNCHANGED <<build, doc, cfg, curPath, methodsLeft, registry, compiled, added,
                   last, probe>>

\* LoadSwaggerServer: one iteration of "for path, methods := range Paths"
\* up to its inner loop
VisitPath ==
    /\ phase = "compile"
    /\ curPath = NoPath
    /\ \E path \in pathsLeft :
          /\ pathsLeft' = pathsLeft \ {path}
          /\ IF PathEligible(build, cfg, path) /\ MethodsOf(doc, path) # {}
             THEN /\ curPath' = path
                  /\ methodsLeft' = MethodsOf(doc, path)
             ELSE UNCHANGED <<curPath, methodsLeft>>
    /\ UNCHANGED <<build, doc, cfg, phase, registry, compiled, added, last, probe>>

\* a registry that keeps the tool it already has under a name
AddTool_KeepsFirst(tools, toolName, tool) == tools @@ (toolName :> tool)

\* mcpServer.AddTool: the tools are kept by name, so that a tool replaces the
\* one added under its name before
AddTool(tools, toolName, tool) == (toolName :> tool) @@ tools

\* LoadSwaggerServer: one iteration of "for method, details := range methods"
VisitMethod ==
    /\ phase = "compile"
    /\ curPath # NoPath
    /\ \E method \in methodsLeft :
          LET parameters == doc.ops[<<curPath, method>>].parameters
              toolName   == ToolName(curPath, method)
              tool       == CompileTool(build, doc, cfg.BaseUrl, curPath, method)
          IN  /\ methodsLeft' = methodsLeft \ {method}
              /\ curPath' = IF methodsLeft = {method} THEN NoPath ELSE curPath
              /\ IF ~ MethodEligible(build, cfg, method)
                 THEN UNCHANGED <<phase, registry, compiled, added>>
                 ELSE IF \E i \in 1..Len(parameters) : DerefPanics(parameters[i])
                 THEN /\ phase' = "crashed"
                      /\ UNCHANGED <<registry, compiled, added>>
                 ELSE /\ registry' = AddTool(registry, toolName, tool)
                      /\ compiled' = AddTool(compiled, toolName, tool)
                      /\ added' = added \cup {<<curPath, method>>}
                      /\ UNCHANGED phase
    /\ UNCHANGED <<build, doc, cfg, pathsLeft, last, probe>>

\* CreateServer: LoadSwaggerServer has returned and the server starts
StartServing ==
    /\ phase = "compile"
    /\ curPath = NoPath
    /\ pathsLeft = {}
    /\ phase' = "serving"
    /\ UNCHANGED <<build, doc, cfg, pathsLeft, curPath, methodsLeft, registry, compiled,
                   added, last, probe>>

\* the body field whose error a run reports, if any field fails
PickOptions(tool, args) ==
    IF FailingFields(tool, args) = {} THEN {<<>>} ELSE FailingFields(tool, args)

\* the inbound headers of the SSE request, where they are forwarded
InboundOptions(b, c) == IF SseActive(b, c) THEN Inbounds ELSE {EmptyMap}

\* one call of a tool's handler; the remote end answers a request that
\* client.Do sends
Invoke ==
    /\ phase = "serving"
    /\ \E toolName \in DOMAIN registry :
       \E args \in ArgSets(registry[toolName]) :
       \E pick \in PickOptions(registry[toolName], args) :
       \E inbound \in InboundOptions(build, cfg) :
       \E run \in {Handle(build, registry[toolName], cfg, args, inbound, pick)} :
       \E outcome \in IF run.sent THEN Outcomes ELSE {NoResponse} :
          /\ last' = [kind |-> "call", toolName |-> toolName, args |-> args,
                      inbound |-> IF run.sent THEN inbound ELSE EmptyMap,
                      outcome |-> outcome, stage |-> run.stage,
                      sent |-> run.sent, req |-> run.req, bound |-> run.bound,
                      calls |-> DoCalls(run.stage, outcome),
                      result |-> IF run.sent THEN ResponseResult(build, outcome)
                                 ELSE run.result]
          /\ registry' = IF build = "v1"
                         THEN [registry EXCEPT ![toolName].reqURL = run.reqURL]
                         ELSE registry
    /\ UNCHANGED <<build, doc, cfg, phase, pathsLeft, curPath, methodsLeft, compiled,
                   added, probe>>

Next == ExtractSwagger \/ VisitPath \/ VisitMethod \/ StartServing \/ Invoke

Spec == Init /\ [][Next]_vars

-----------------------------------------------------------------------------
(* Properties of the server *)

IsCall   == last.kind = "call"
LastTool == compiled[last.toolName]

\* both filters of the configuration accept the pair
Included(pair) ==
    /\ shouldIncludePath(pair[1], compileRegexes(cfg.IncludePaths),
                         compileRegexes(cfg.ExcludePaths))
    /\ shouldIncludeMethod(pair[2], methodList(cfg.IncludeMethods),
                           methodList(cfg.ExcludeMethods))

\* C1: LoadSwaggerServer calls AddTool only for (path, method) pairs that
\* shouldIncludePath and shouldIncludeMethod both accept, and when it has
\* returned it has called AddTool for every such pair of the document, whose
\* tool is then in the registry.
C1_RegisteredIffIncluded ==
    phase \in {"compile", "serving"} =>
        /\ \A pair \in added : pair \in DOMAIN doc.ops /\ Included(pair)
        /\ \A pair \in added : ToolName(pair[1], pair[2]) \in DOMAIN registry
        /\ phase = "serving" => \A pair \in DOMAIN doc.ops : Included(pair) => pair \in added

\* a compiled document of which the method filter alone rejects an
\* operation, and the path filter rejects a path
C1_Witness ==
    /\ phase = "serving"
    /\ build = "head"
    /\ \E pair \in added : Included(pair)
    /\ \E pair \in DOMAIN doc.ops \ added :
          /\ shouldIncludePath(pair[1], compileRegexes(cfg.IncludePaths),
                               compileRegexes(cfg.ExcludePaths))
          /\ ~ Included(pair)

\* the text parses under the declared type of a body field
ParsesAs(paramType, text) ==
    CASE paramType = "string" -> TRUE
      [] paramType \in {"int", "integer"} -> AtoiOk(text)
      [] paramType \in {"bool", "boolean"} -> text \in BoolTrue \cup BoolFalse
      [] paramType = "float" -> IsDecimalText(text) \/ IsSpecialFloat(text)
      [] paramType = "array" -> text \in JSONArrayTexts
      [] paramType = "object" -> text \in JSONObjectTexts
      [] OTHER -> FALSE

\* every declared body field is in the arguments as text that parses
AllFieldsParse ==
    \A n \in DOMAIN LastTool.reqBody :
        IsString(last.args, n) /\ ParsesAs(LastTool.reqBody[n], last.args[n].s)

\* a float field whose text parses to NaN or to an infinity
SomeFieldNotFinite ==
    \E n \in DOMAIN LastTool.reqBody :
        /\ LastTool.reqBody[n] = "float"
        /\ IsString(last.args, n)
        /\ IsSpecialFloat(last.args[n].s)

\* the outbound body has exactly the declared fields, typed as declared
BodyAsDeclared ==
    /\ last.sent
    /\ DOMAIN last.req.body = DOMAIN LastTool.reqBody
    /\ \A n \in DOMAIN LastTool.reqBody :
          LET paramType == LastTool.reqBody[n]
              text == last.args[n].s
          IN  /\ paramType = "string" => last.req.body[n] = JString(text)
              /\ paramType \in {"int", "integer"} => last.req.body[n] = JNumber(Atoi(text))
              /\ paramType \in {"bool", "boolean"} =>
                    last.req.body[n] = JBool(text \in BoolTrue)

\* the run got as far as the loop over the body fields
ReachedBody == IsCall /\ last.stage \notin {"path", "parse", "query"}

\* the run returned from NewRequest, the header loop or a failed client.Do
StoppedAfterBody == last.stage \in {"request", "header", "scheme"}

\* C3 as stated: whenever every declared body field is present as text
\* that parses under its declared type, the run builds the outbound body
\* with exactly the declared fields, typed as declared.
C3_Original ==
    ReachedBody /\ AllFieldsParse =>
        last.stage \notin {"body", "marshal"} /\ (StoppedAfterBody \/ BodyAsDeclared)

\* C3: whenever every declared body field is present as text that parses
\* under its declared type, and no float field parses to NaN or an infinity,
\* the outbound body has exactly the declared fields, string fields as JSON
\* strings, int/integer fields as JSON numbers, bool/boolean fields as JSON
\* booleans; "bob", "42", "true" give {"name":"bob","age":42,"active":true}.
\* A float field that parses to NaN or an infinity makes json.Marshal fail.
C3_BodyTyped ==
    /\ ReachedBody /\ AllFieldsParse /\ ~ SomeFieldNotFinite =>
          last.stage \notin {"body", "marshal"} /\ (StoppedAfterBody \/ BodyAsDeclared)
    /\ ReachedBody /\ AllFieldsParse /\ SomeFieldNotFinite =>
          last.stage = "marshal" /\ last.result.isError /\ ~ last.sent
    /\ (/\ IsCall /\ last.sent
        /\ DOMAIN LastTool.reqBody = {sName, sAge, sActive}
        /\ last.args[sName] = Str(<<"b","o","b">>)
        /\ last.args[sAge] = Str(<<"4","2">>)
        /\ last.args[sActive] = Str(<<"t","r","u","e">>))
       => last.req.body = (sName :> JString(<<"b","o","b">>) @@ sAge :> JNumber(42)
                           @@ sActive :> JBool(TRUE))

\* the example of C3 has been sent
C3_Witness ==
    /\ IsCall /\ last.sent
    /\ LastTool.reqBody = (sName :> "string" @@ sAge :> "int" @@ sActive :> "bool")
    /\ last.args[sName] = Str(<<"b","o","b">>)
    /\ last.args[sAge] = Str(<<"4","2">>)
    /\ last.args[sActive] = Str(<<"t","r","u","e">>)
    /\ last.req.body[sAge].t = "number"

\* the declared path parameters that are absent or not a string
BadPathParams ==
    {i \in 1..Len(LastTool.reqPathParam) : ~ IsString(last.args, LastTool.reqPathParam[i])}

\* C4: when a declared path parameter is absent from the arguments or is
\* not a string, the run returns an error result whose text contains the
\* name of such a parameter, and client.Do is not called.
C4_MissingPathParam ==
    IsCall /\ BadPathParams # {} =>
        /\ last.result.isError
        /\ ~ last.sent
        /\ last.outcome = NoResponse
        /\ \E i \in BadPathParams : Contains(last.result.text, LastTool.reqPathParam[i])

\* a run with the path parameter absent, the other arguments being good
C4_Witness ==
    /\ IsCall
    /\ LastTool.reqPathParam = <<sId>>
    /\ sId \notin DOMAIN last.args
    /\ \A n \in DOMAIN last.args : last.args[n] = Str(GoodArg(n))
    /\ last.stage = "path"

\* the run did not end with a response that was read
RunFailed == ~ (last.sent /\ last.outcome.kind = "ok")

\* C5: every run returns a result with a nil error, and a run that fails
\* returns an error result whose text begins with "[Error]".
C5_ErrorsPrefixed ==
    IsCall =>
        /\ last.result.err = "nil"
        /\ RunFailed => last.result.isError /\ Head(last.result.text) = "[Error]"

\* C6: when the HTTP call completes and the body is read, the result is a
\* success result whose text is the response body, whatever the status.
C6_BodyReturned ==
    IsCall /\ last.sent /\ last.outcome.kind = "ok" =>
        /\ ~ last.result.isError
        /\ last.result.text = last.outcome.body

\* a response with status 404 has been read
C6_Witness ==
    /\ IsCall /\ last.sent
    /\ last.outcome.kind = "ok"
    /\ last.outcome.status = 404
    /\ last.result.text = <<"n","o">>

\* C7: no run changes what a handler captured when its tool was added, and
\* the URL of a request comes from the URL template of that time and the
\* arguments of the run.
C7_TemplateUntouched ==
    /\ phase = "serving" => registry = compiled
    /\ IsCall /\ last.sent =>
          last.req.pre = SubstitutePath(LastTool.reqURL, LastTool.reqPathParam, last.args,
                                        Len(LastTool.reqPathParam))

\* the header parameters of the tool of the last run, by canonical name
DeclaresHeader(name) ==
    \E i \in 1..Len(LastTool.reqHeader) : CanonicalHeaderKey(LastTool.reqHeader[i]) = name

\* the well-formed entries of the configured apiKey list
KeyEntries ==
    LET parts == Split(cfg.ApiKeyAuth, ",")
    IN  {ParseEntry(parts[i]) : i \in {j \in 1..Len(parts) : ParseEntry(parts[j]).ok}}

\* the header name / value pairs the active scheme sets by replacement
SchemeHeaders ==
    IF build # "head" THEN {}
    ELSE IF TrimSpace(cfg.Security) = sBasic /\ cfg.BasicAuth # <<>>
    THEN {<<sAuthorization, <<"Basic ">> \o EncodeToString(cfg.BasicAuth)>>}
    ELSE IF TrimSpace(cfg.Security) = sBearer /\ cfg.BearerAuth # <<>>
    THEN {<<sAuthorization, <<"Bearer ">> \o cfg.BearerAuth>>}
    ELSE IF TrimSpace(cfg.Security) = sApiKey
    THEN {<<CanonicalHeaderKey(e.name), e.value>> : e \in {x \in KeyEntries : x.passAs = sHeader}}
    ELSE {}

\* the cookies the active scheme adds
SchemeCookies ==
    IF build = "head" /\ TrimSpace(cfg.Security) = sApiKey
    THEN {e.name \o <<"=">> \o e.value : e \in {x \in KeyEntries : x.passAs = ToLower(sCookie)}}
    ELSE {}

\* a custom header or a forwarded SSE header has the name
SetAfterSecurity(name) ==
    \/ /\ build = "head"
       /\ \E i \in 1..Len(Split(cfg.Headers, ",")) :
             LET pair == TrimSpace(Split(cfg.Headers, ",")[i])
                 eq   == Index(pair, <<"=">>)
             IN  eq # 0 /\ CanonicalHeaderKey(TrimSpace(SubSeq(pair, 1, eq - 1))) = name
    \/ /\ SseActive(build, cfg)
       /\ \E i \in 1..Len(Split(cfg.SseHeaders, ",")) :
             CanonicalHeaderKey(Split(cfg.SseHeaders, ",")[i]) = name

\* C10 as stated: a declared header parameter with the name of a header
\* that the active scheme sets leaves only the value of the scheme in the
\* outbound request.
C10_Original ==
    IsCall /\ last.sent =>
        /\ \A hv \in SchemeHeaders :
              DeclaresHeader(hv[1]) => last.req.header[hv[1]] = <<hv[2]>>
        /\ \A cookie \in SchemeCookies :
              DeclaresHeader(sCookie) => last.req.header[sCookie] = <<cookie>>

\* C10: security binding runs after the header parameters are attached.
\* A header that the scheme sets by replacement (Authorization for basic and
\* bearer, the header entries of apiKey) carries only the value of the
\* scheme, unless a custom header or a forwarded SSE header of that name is
\* applied after it; a cookie entry of apiKey is appended to the Cookie
\* header parameter of the caller, which stays in front.
C10_SecurityOverrides ==
    IsCall /\ last.sent =>
        /\ \A hv \in SchemeHeaders :
              DeclaresHeader(hv[1]) /\ ~ SetAfterSecurity(hv[1]) /\ hv[1] # sCookie =>
                  last.req.header[hv[1]] = <<hv[2]>>
        /\ \A cookie \in SchemeCookies :
              DeclaresHeader(sCookie) /\ ~ SetAfterSecurity(sCookie) =>
                  /\ Len(last.req.header[sCookie]) = 1
                  /\ HasPrefix(last.req.header[sCookie][1], last.args[sCookie].s)
                  /\ HasSuffix(last.req.header[sCookie][1], <<";", " ">> \o cookie)

\* a bearer token has replaced the Authorization header parameter
C10_Witness ==
    /\ IsCall /\ last.sent
    /\ cfg = CfgBearer
    /\ sAuthorization \in DOMAIN last.args
    /\ last.args[sAuthorization] = Str(<<"o","l","d">>)
    /\ last.req.header[sAuthorization] = << <<"Bearer ">> \o sToken >>

-----------------------------------------------------------------------------
(* C11: forwarded SSE headers *)

Range(seq) == {seq[i] : i \in DOMAIN seq}

\* the keys that the context function of the SSE server captures
ForwardedKeys == IF SseActive(build, cfg) THEN Range(Split(cfg.SseHeaders, ",")) ELSE {}

\* C11: when the call context carries header values captured from the
\* inbound SSE request, each is set on the outbound request after the header
\* parameters, Content-Type, security and the custom headers: for every
\* forwarded name the request carries exactly the captured value.
C11_ForwardedOverrides ==
    IsCall /\ last.sent =>
        \A key \in ForwardedKeys :
            /\ CanonicalHeaderKey(key) \in DOMAIN last.req.header
            /\ last.req.header[CanonicalHeaderKey(key)] = <<HeaderGet(last.inbound, key)>>

\* a forwarded Authorization has replaced the header parameter, the basic
\* credentials and the custom header of that name
C11_Witness ==
    /\ IsCall /\ last.sent
    /\ cfg = CfgForward
    /\ sAuthorization \in DOMAIN last.args
    /\ last.args[sAuthorization] = Str(<<"o","l","d">>)
    /\ HeaderGet(last.inbound, sAuthorization) = <<"f","w","d">>
    /\ last.req.header[sAuthorization] = << <<"f","w","d">> >>

-----------------------------------------------------------------------------
(* The base URL derivations applied to bounded documents *)

HostPool ==
    { <<>>, <<"f">>, <<"f","/">>, <<"f","/","/">>, sHttp \o <<"f">>, sHttps \o <<"f">>,
      sHttps \o <<"f","/">>, <<"h","t","t","p","f">> }
BasePathPool == { <<>>, <<"/">>, <<"/","b">>, <<"b">>, <<"/","b","/">>, <<"/","/","b">> }
ServersPool ==
    { <<>>, << sHttps \o <<"a","/","v","1","/">> >>, << sHttps \o <<"a">>, sHttp \o <<"c">> >>,
      << <<"/">> >> }
MarkerPool == { <<>>, <<"3",".","0",".","0">> }
OverridePool == { <<>>, sHttp \o <<"o","/">> }

ProbeDocs ==
    { [openapi |-> m, host |-> h, basePath |-> b, servers |-> s] :
        m \in MarkerPool, h \in HostPool, b \in BasePathPool, s \in ServersPool }

EndpointPaths == { <<"/","p">>, <<"p">> }

InitBaseURL ==
    /\ ServerIdle
    /\ build = "head"
    /\ phase = "probe"
    /\ \/ \E d \in ProbeDocs :
             probe = [op |-> "getBaseURL", d |-> d, baseUrl |-> <<>>,
                      applied |-> FALSE, out |-> <<>>]
       \/ \E d \in ProbeDocs, o \in OverridePool :
             probe = [op |-> "LoadSwaggerServer", d |-> d, baseUrl |-> o,
                      applied |-> FALSE, out |-> <<>>]
       \/ \E d \in ProbeDocs, path \in EndpointPaths :
             probe = [op |-> "ExtractSwagger", d |-> d, baseUrl |-> <<>>, path |-> path,
                      applied |-> FALSE, out |-> <<>>, reqURL |-> <<>>]

\* extracter.go: getBaseURL(swaggerSpec)
ProbeGetBaseURL ==
    /\ phase = "probe"
    /\ probe.op = "getBaseURL"
    /\ ~ probe.applied
    /\ probe' = [probe EXCEPT !.applied = TRUE, !.out = getBaseURL(probe.d)]
    /\ ServerUnchanged

\* part_001: the base URL that LoadSwaggerServer derives for an operation
ProbeLoadBaseURL ==
    /\ phase = "probe"
    /\ probe.op = "LoadSwaggerServer"
    /\ ~ probe.applied
    /\ probe' = [probe EXCEPT !.applied = TRUE, !.out = BaseURLHead(probe.d, probe.baseUrl)]
    /\ ServerUnchanged

\* extracter.go: the fullURL that ExtractSwagger prints for an operation, and
\* part_001: the reqURL that LoadSwaggerServer derives for it
ProbeEndpointURL ==
    /\ phase = "probe"
    /\ probe.op = "ExtractSwagger"
    /\ ~ probe.applied
    /\ probe' = [probe EXCEPT !.applied = TRUE,
                              !.out = JoinURL(getBaseURL(probe.d), probe.path),
                              !.reqURL = ReqURL("head", probe.d, <<>>, probe.path)]
    /\ ServerUnchanged

NextBaseURL == ProbeGetBaseURL \/ ProbeLoadBaseURL \/ ProbeEndpointURL

SpecBaseURL == InitBaseURL /\ [][NextBaseURL]_vars

BaseURLDerived == probe.op \in {"getBaseURL", "LoadSwaggerServer"} /\ probe.applied

\* the host with its scheme: unchanged when it has one, else behind https://
SchemedHost(host) ==
    IF HasPrefix(host, sHttp) \/ HasPrefix(host, sHttps) THEN host ELSE sHttps \o host

\* two texts joined so that their junction holds one slash: the slash the
\* first ends with, the slash the second begins with, or a new one
JoinedByOneSlash(left, right) ==
    CASE HasSuffix(left, <<"/">>) /\ HasPrefix(right, <<"/">>) -> left \o Tail(right)
      [] HasSuffix(left, <<"/">>) /\ ~ HasPrefix(right, <<"/">>) -> left \o right
      [] ~ HasSuffix(left, <<"/">>) /\ HasPrefix(right, <<"/">>) -> left \o right
      [] OTHER -> left \o <<"/">> \o right

C13_OpenAPIVerbatim ==
    probe.op = "getBaseURL" /\ probe.applied /\ probe.d.openapi # <<>> =>
        probe.out = IF Len(probe.d.servers) > 0 THEN probe.d.servers[1] ELSE <<>>

-----------------------------------------------------------------------------
(* C14: compilation is repeatable *)

\* the operations LoadSwaggerServer compiles
Eligible(pair) == PathEligible(build, cfg, pair[1]) /\ MethodEligible(build, cfg, pair[2])
EligibleOps == {pair \in DOMAIN doc.ops : Eligible(pair)}

\* the eligible operations that get one tool name
NamedOps(name) == {pair \in EligibleOps : ToolName(pair[1], pair[2]) = name}

\* the tool of a name in one fixed compilation of the document
ReferenceTool(name) ==
    LET pair == CHOOSE p \in NamedOps(name) : TRUE
    IN  CompileTool(build, doc, cfg.BaseUrl, pair[1], pair[2])

\* C14: compiling one document under one configuration gives one set of
\* tools, whatever the order in which paths and methods are visited: the
\* same names and, for each name, the same URL template, path, query and
\* header parameter lists and body field types as any other compilation.
C14_SameTools ==
    phase = "serving" =>
        /\ DOMAIN compiled = {ToolName(pair[1], pair[2]) : pair \in EligibleOps}
        /\ \A name \in DOMAIN compiled :
              /\ compiled[name].reqURL = ReferenceTool(name).reqURL
              /\ compiled[name].reqPathParam = ReferenceTool(name).reqPathParam
              /\ compiled[name].reqQueryParam = ReferenceTool(name).reqQueryParam
              /\ compiled[name].reqHeader = ReferenceTool(name).reqHeader
              /\ compiled[name].reqBody = ReferenceTool(name).reqBody

-----------------------------------------------------------------------------
(* C15: body fields *)

\* where the schemas of the dialect of the document are kept:
\* SwaggerSpec.Definitions, or SwaggerSpec.Components.Schemas
SchemasOf(d) == IF d.openapi # <<>> THEN d.components ELSE d.definitions

\* the last segment of a $ref
RefName(ref) == Split(ref, "/")[Len(Split(ref, "/"))]

\* the body parameters of an operation whose $ref names a schema of the document
ResolvedBodyParams(d, pair) ==
    {i \in 1..Len(d.ops[pair].parameters) :
        LET param == d.ops[pair].parameters[i]
        IN  /\ param.in = "body"
            /\ param.schema.present
            /\ param.schema.ref # <<>>
            /\ RefName(param.schema.ref) \in DOMAIN SchemasOf(d)}

\* C15: for a body parameter whose $ref names a schema in definitions
\* (Swagger 2.0) or in components.schemas (OpenAPI 3.0), every first-level
\* property of the schema is an entry of the body field type map of the
\* tool, with the declared type of the property.
C15_BodyFieldsFromSchema ==
    phase \in {"compile", "serving"} =>
        \A name \in DOMAIN compiled :
            LET pair == <<compiled[name].path, compiled[name].method>>
            IN  \A i \in ResolvedBodyParams(doc, pair) :
                   LET schema == SchemasOf(doc)[RefName(doc.ops[pair].parameters[i].schema.ref)]
                   IN  \A prop \in DOMAIN schema.properties :
                          /\ prop \in DOMAIN compiled[name].reqBody
                          /\ compiled[name].reqBody[prop] = schema.properties[prop]

-----------------------------------------------------------------------------
(* C16: body parameters without a resolvable schema *)

\* the body parameters of an operation that resolve to no definition: the
\* name of the $ref is absent, or the parameter has no schema object
UnresolvedBodyParams(d, pair) ==
    {i \in 1..Len(d.ops[pair].parameters) :
        LET param == d.ops[pair].parameters[i]
        IN  /\ param.in = "body"
            /\ \/ ~ param.schema.present
               \/ RefName(param.schema.ref) \notin DOMAIN d.definitions}

BodyParams(d, pair) ==
    {i \in 1..Len(d.ops[pair].parameters) : d.ops[pair].parameters[i].in = "body"}

\* C16: a body parameter whose schema cannot be resolved gives no body
\* field and does not abort the compilation: when the server starts, every
\* eligible operation has its tool, and the tool of an operation whose body
\* parameters are all unresolved has an empty body field type map.
C16_UnresolvedSkipped ==
    /\ phase # "crashed"
    /\ phase = "serving" =>
          /\ \A pair \in EligibleOps : ToolName(pair[1], pair[2]) \in DOMAIN compiled
          /\ \A name \in DOMAIN compiled :
                LET pair == <<compiled[name].path, compiled[name].method>>
                IN  BodyParams(doc, pair) = UnresolvedBodyParams(doc, pair) =>
                       compiled[name].reqBody = EmptyMap

-----------------------------------------------------------------------------
(* loader.go: the maximum size of a specification *)

\* loader.go: DefaultMaxSpecSize = 10 * 1024 * 1024
DefaultMaxSpecSize == 10485760

\* the longest prefix of digits of a text
RECURSIVE DigitPrefix(_)
DigitPrefix(s) ==
    IF s # <<>> /\ IsDigitC(s[1]) THEN <<s[1]>> \o DigitPrefix(Tail(s)) ELSE <<>>

\* fmt.Sscanf(s, "%d", &x): an optional sign and the digits that follow it;
\* text after the digits is left unread
Sscanf(s) ==
    LET body == Unsigned(s)
    IN  IF DigitPrefix(body) = <<>> THEN [ok |-> FALSE, n |-> 0]
        ELSE [ok |-> TRUE,
              n  |-> IF s[1] = "-" THEN 0 - DecimalValue(DigitPrefix(body))
                     ELSE DecimalValue(DigitPrefix(body))]

sKB == <<"K","B">>
sMB == <<"M","B">>
sGB == <<"G","B">>

\* the switch of parseSize: the multiplier and the text without its suffix
SizeSuffix(s) ==
    IF HasSuffix(s, sKB) THEN [mult |-> 1024, rest |-> TrimSuffix(s, sKB)]
    ELSE IF HasSuffix(s, sMB) THEN [mult |-> 1024 * 1024, rest |-> TrimSuffix(s, sMB)]
    ELSE IF HasSuffix(s, sGB) THEN [mult |-> 1024 * 1024 * 1024, rest |-> TrimSuffix(s, sGB)]
    ELSE [mult |-> 1, rest |-> s]

\* the first Sscanf stores the number in mult, and mult is what is returned
ScanInto(mult, rest) ==
    IF Sscanf(rest).ok THEN [ok |-> TRUE, n |-> Sscanf(rest).n]
    ELSE IF Sscanf(rest).ok THEN [ok |-> TRUE, n |-> Sscanf(rest).n * mult]
    ELSE [ok |-> FALSE, n |-> 0]

\* loader.go: parseSize
parseSize(s) ==
    ScanInto(SizeSuffix(TrimSpace(ToUpper(s))).mult, SizeSuffix(TrimSpace(ToUpper(s))).rest)

\* loader.go: GetMaxSpecSize, with the value of SWAGGER_MCP_MAX_SPEC_SIZE
GetMaxSpecSize(maxSpecSize, env) ==
    IF maxSpecSize > 0 THEN maxSpecSize
    ELSE IF env # <<>> /\ parseSize(env).ok THEN parseSize(env).n
    ELSE DefaultMaxSpecSize

NumberPool == { <<"0">>, <<"1">>, <<"7">>, <<"1","0">>, <<"5","1","2">>, <<>> }
SuffixPool == { <<>>, sKB, sMB, sGB, <<"k","b">>, <<"M","b">>, <<"g","b">>, <<"B">>,
                <<" ">> \o sMB, <<"X">> }
LeadPool == { <<>>, <<" ">>, <<"-">> }
MaxSpecSizePool == { -1, 0, 4096 }

InitSize ==
    /\ ServerIdle
    /\ build = "head"
    /\ phase = "probe"
    /\ \/ \E lead \in LeadPool, number \in NumberPool, suffix \in SuffixPool :
             probe = [op |-> "parseSize", lead |-> lead, number |-> number,
                      suffix |-> suffix, maxSpecSize |-> -1,
                      applied |-> FALSE, ok |-> FALSE, out |-> 0]
       \/ \E maxSpecSize \in MaxSpecSizePool, number \in NumberPool, suffix \in SuffixPool :
             probe = [op |-> "GetMaxSpecSize", lead |-> <<>>, number |-> number,
                      suffix |-> suffix, maxSpecSize |-> maxSpecSize,
                      applied |-> FALSE, ok |-> FALSE, out |-> 0]

SizeText == probe.lead \o probe.number \o probe.suffix

ProbeParseSize ==
    /\ phase = "probe"
    /\ probe.op = "parseSize"
    /\ ~ probe.applied
    /\ probe' = [probe EXCEPT !.applied = TRUE, !.ok = parseSize(SizeText).ok,
                              !.out = parseSize(SizeText).n]
    /\ ServerUnchanged

ProbeGetMaxSpecSize ==
    /\ phase = "probe"
    /\ probe.op = "GetMaxSpecSize"
    /\ ~ probe.applied
    /\ probe' = [probe EXCEPT !.applied = TRUE, !.ok = TRUE,
                              !.out = GetMaxSpecSize(probe.maxSpecSize, SizeText)]
    /\ ServerUnchanged

NextSize == ProbeParseSize \/ ProbeGetMaxSpecSize

SpecSize == InitSize /\ [][NextSize]_vars

\* the multiplier that the claim gives a suffix
SuffixFactor(suffix) ==
    CASE suffix = sKB -> 1024
      [] suffix = sMB -> 1024 * 1024
      [] suffix = sGB -> 1024 * 1024 * 1024
      [] OTHER -> 1

\* value = number * factor, written without the product
IsProduct(value, number, factor) == value % factor = 0 /\ value \div factor = number

\* C19: parseSize of "<n>KB", "<n>MB" and "<n>GB" is n*1024, n*1024^2 and
\* n*1024^3, and parseSize of "<n>" is n.
C19_SizeSuffixes ==
    /\ probe.op = "parseSize" /\ probe.applied
    /\ probe.lead = <<>> /\ probe.number # <<>>
    /\ probe.suffix \in {<<>>, sKB, sMB, sGB}
    => /\ probe.ok
       /\ IsProduct(probe.out, DecimalValue(probe.number), SuffixFactor(probe.suffix))

-----------------------------------------------------------------------------
(* getSseUrlAddr: the base URL and the listen address of the SSE server *)

sFtp == <<"ftp:/", "/">>
sLocalhost == <<"l","o","c","a","l","h","o","s","t">>
sPort8080 == <<":","8","0","8","0">>

\* url.Parse: the scheme of a URL, "" when it has none
UrlScheme(u) ==
    IF HasPrefix(u, sHttps) THEN <<"h","t","t","p","s">>
    ELSE IF HasPrefix(u, sHttp) THEN <<"h","t","t","p">>
    ELSE IF HasPrefix(u, sFtp) THEN <<"f","t","p">>
    ELSE <<>>

\* url.Parse: u.Host, the text between the scheme and the first "/"
UrlHost(u) ==
    LET rest == SubSeq(u, 3, Len(u))
    IN  IF UrlScheme(u) = <<>> THEN <<>>
        ELSE IF Index(rest, <<"/">>) = 0 THEN rest
        ELSE SubSeq(rest, 1, Index(rest, <<"/">>) - 1)

Fatal == [fatal |-> TRUE, url |-> <<>>, addr |-> <<>>]
Returns(url, addr) == [fatal |-> FALSE, url |-> url, addr |-> addr]

\* the branch of getSseUrlAddr for an empty sseAddr and a given sseUrl
AddrOfUrl(sseUrl, host) ==
    LET name == IF Contains(host, <<":">>) THEN Split(host, ":")[1] ELSE host
        port == IF Contains(host, <<":">>) THEN Split(host, ":")[2]
                ELSE IF UrlScheme(sseUrl) = <<"h","t","t","p">> THEN <<"8","0">>
                ELSE IF UrlScheme(sseUrl) = <<"h","t","t","p","s">> THEN <<"4","4","3">>
                ELSE <<>>
    IN  IF port = <<>> THEN Fatal ELSE Returns(sseUrl, name \o <<":">> \o port)

\* loader.go: getSseUrlAddr
getSseUrlAddr(sseUrl, sseAddr) ==
    IF sseAddr = <<>> /\ sseUrl = <<>>
    THEN Returns(sHttp \o sLocalhost \o sPort8080, sLocalhost \o sPort8080)
    ELSE IF sseAddr # <<>>
    THEN IF HasPrefix(sseAddr, <<":">>) THEN Returns(sHttp \o sLocalhost \o sseAddr, sseAddr)
         ELSE IF ~ Contains(sseAddr, <<":">>) THEN Fatal
         ELSE Returns(sHttp \o sseAddr, sseAddr)
    ELSE AddrOfUrl(sseUrl, UrlHost(sseUrl))

SseUrlPool ==
    { <<>>, sHttp \o <<"f",":","1","2">>, sHttps \o <<"b">>, sHttp \o <<"z">>,
      sFtp \o <<"b">>, sHttps \o <<"b",":","9","/","s">>, sHttp \o sLocalhost \o sPort8080,
      sHttp \o <<"1",".","2",":","9","0">>, <<"b">>, sHttps \o <<"b","/">>,
      sHttp \o <<"b","/","x",":","y">> }
SseAddrPool ==
    { <<>>, sPort8080, <<"1",".","2",":","9","0">>, <<"b","a","d">>, <<":","9">>,
      <<"f",":","1","2">>, sLocalhost \o sPort8080, <<"b",":","9">> }

InitSse ==
    /\ ServerIdle
    /\ build = "head"
    /\ phase = "probe"
    /\ \E sseUrl \in SseUrlPool, sseAddr \in SseAddrPool :
          probe = [op |-> "getSseUrlAddr", sseUrl |-> sseUrl, sseAddr |-> sseAddr,
                   applied |-> FALSE, out |-> Fatal]

\* main: finalSseUrl, finalSseAddr = getSseUrlAddr(*sseUrl, *sseAddr)
ProbeSseUrlAddr ==
    /\ phase = "probe"
    /\ probe.op = "getSseUrlAddr"
    /\ ~ probe.applied
    /\ probe' = [probe EXCEPT !.applied = TRUE,
                              !.out = getSseUrlAddr(probe.sseUrl, probe.sseAddr)]
    /\ ServerUnchanged

NextSse == ProbeSseUrlAddr

SpecSse == InitSse /\ [][NextSse]_vars

\* C20: when --sseAddr and --sseUrl are both set, getSseUrlAddr returns
\* both values unchanged and derives neither from the other.
C20_BothUnchanged ==
    /\ probe.op = "getSseUrlAddr" /\ probe.applied
    /\ probe.sseUrl # <<>> /\ probe.sseAddr # <<>>
    => /\ ~ probe.out.fatal
       /\ probe.out.url = probe.sseUrl
       /\ probe.out.addr = probe.sseAddr

-----------------------------------------------------------------------------
(* LoadSwaggerServer of server.go ("v2"): the URL templates.  The function *)
(* keeps the base URL in its parameter baseUrl, which the first operation  *)
(* compiled without an override fills in; in that branch the template is   *)
(* assigned with ":=" to a new variable of the inner block, so the reqURL  *)
(* handed to CreateMCPToolHandler stays empty.                             *)

\* server.go:403-427: baseUrl and reqURL after the if statement
LoadURLV2(baseUrl, d, path) ==
    IF baseUrl = <<>>
    THEN [baseUrl |-> BaseURLHead(d, <<>>), reqURL |-> <<>>]
    ELSE [baseUrl |-> baseUrl, reqURL |-> JoinURL(baseUrl, path)]

TemplatePaths == { <<"/","p">>, <<"p","/","q">>, <<"/","u","/","{","i","d","}">> }

InitLoadV2 ==
    /\ ServerIdle
    /\ build = "v2"
    /\ phase = "probe"
    /\ \E d \in {x \in ProbeDocs : x.basePath \in {<<>>, <<"/","b">>}}, o \in OverridePool :
          probe = [op |-> "LoadSwaggerServer", d |-> d, override |-> o, baseUrl |-> o,
                   left |-> TemplatePaths, urls |-> EmptyMap]

\* one iteration of the loops of LoadSwaggerServer up to reqMethod
CompileURLV2 ==
    /\ phase = "probe"
    /\ probe.op = "LoadSwaggerServer"
    /\ \E path \in probe.left :
          probe' = [probe EXCEPT
                       !.left = @ \ {path},
                       !.baseUrl = LoadURLV2(probe.baseUrl, probe.d, path).baseUrl,
                       !.urls = (path :> LoadURLV2(probe.baseUrl, probe.d, path).reqURL) @@ @]
    /\ ServerUnchanged

NextLoadV2 == CompileURLV2

SpecLoadV2 == InitLoadV2 /\ [][NextLoadV2]_vars

\* the base of the claim: the override, or for an OpenAPI document the first
\* server without its trailing slash, or "/"
TemplateBase(d, override) ==
    IF override # <<>> THEN override
    ELSE IF Len(d.servers) > 0 THEN TrimSuffix(d.servers[1], <<"/">>)
    ELSE <<"/">>

\* C21: the URL template of every compiled tool is the base without one
\* trailing slash, "/", and the path template without one leading slash; the
\* base is the override when one is set, and else for an OpenAPI document
\* the first server without its trailing slash, or "/" without servers;
\* whichever operation is compiled first.
C21_URLTemplate ==
    probe.op = "LoadSwaggerServer" /\ (probe.override # <<>> \/ probe.d.openapi # <<>>) =>
        \A path \in DOMAIN probe.urls :
            probe.urls[path] = TrimSuffix(TemplateBase(probe.d, probe.override), <<"/">>)
                                  \o <<"/">> \o TrimPrefix(path, <<"/">>)

-----------------------------------------------------------------------------
(* Query parameters of an invocation *)

\* the apiKey scheme is active with a query entry of this name
KeySetsQuery(name) ==
    /\ build = "head"
    /\ TrimSpace(cfg.Security) = sApiKey
    /\ \E e \in KeyEntries : e.passAs = sQuery /\ e.name = name

-----------------------------------------------------------------------------
(* Path parameters of an invocation *)

\* the placeholders {name} that start a text, among those of names
PlaceholdersAt(text, names) ==
    {n \in names : HasPrefix(text, <<"{">> \o n \o <<"}">>)}

\* a template with the first occurrence of the placeholder of every name
\* replaced by the argument of that name, and nothing else changed
RECURSIVE OwnValues(_, _, _)
OwnValues(template, names, args) ==
    IF template = <<>> THEN <<>>
    ELSE IF PlaceholdersAt(template, names) # {}
    THEN LET n == CHOOSE x \in PlaceholdersAt(template, names) : TRUE
         IN  ArgText(args, n)
                \o OwnValues(SubSeq(template, Len(n) + 3, Len(template)), names \ {n}, args)
    ELSE <<Head(template)>> \o OwnValues(Tail(template), names, args)

\* C23: after the path substitution the URL is the URL template with the
\* first occurrence of the placeholder of each path parameter replaced by the
\* argument of that parameter, whatever the arguments are: no value put in
\* for one parameter is rewritten when a later parameter is substituted.
C23_OwnValues ==
    IsCall /\ build = "head" /\ last.sent =>
        last.req.pre = OwnValues(LastTool.reqURL, Range(LastTool.reqPathParam), last.args)

-----------------------------------------------------------------------------
(* The HTTP calls of an invocation *)

\* an argument of the last run fails its path, query, body or header check
BindingFails ==
    \/ FirstNotString(LastTool.reqPathParam, last.args) # 0
    \/ FirstNotString(LastTool.reqQueryParam, last.args) # 0
    \/ FailingFields(LastTool, last.args) # {}
    \/ FirstNotString(LastTool.reqHeader, last.args) # 0

\* the arguments pass their checks but give a URL that does not parse or a
\* body that json.Marshal rejects
Unbuildable ==
    \/ ~ URLParses(CurrentReqURL(LastTool, last.args))
    \/ MarshalFails(BodyData(LastTool, last.args))

\* the statement of C24 as written: no call when a binding fails, exactly
\* one call otherwise
C24_Original ==
    IsCall /\ build = "head" => last.calls = IF BindingFails THEN 0 ELSE 1

\* C24: an invocation calls the HTTP client at most once: not at all when
\* the check of a path, query, body or header argument fails, or when the
\* URL does not parse or the body cannot be serialized, and exactly once
\* otherwise; when that call fails the result is an error and the call is
\* not made again.
C24_AtMostOneCall ==
    IsCall /\ build = "head" =>
        /\ last.calls = IF BindingFails \/ Unbuildable THEN 0 ELSE 1
        /\ (last.calls = 1 /\ (~ last.sent \/ last.outcome.kind \in {"neterr", "readerr"})) =>
              last.result.isError

\* the one call of an invocation failed on the network
C24_Witness ==
    /\ IsCall /\ build = "head"
    /\ ~ BindingFails
    /\ last.sent /\ last.outcome.kind = "neterr"
    /\ last.calls = 1
    /\ last.result.isError

-----------------------------------------------------------------------------
(* Tool names *)

\* method + "_" + the path template without its braces
BraceFree(path) == SelectSeq(path, LAMBDA c : c \notin {"{", "}"})
NameOf(op) == op[2] \o <<"_">> \o BraceFree(op[1])

\* C25: an operation is registered under method + "_" + its path template
\* without "{" and "}"; registering it leaves one tool under that name, bound
\* to this operation, and every tool of another name as it was, so that of
\* two operations with one name the one registered last has the tool.
C25_LastRegistrationWins ==
    [][\A op \in added' \ added :
          /\ DOMAIN registry' = DOMAIN registry \cup {NameOf(op)}
          /\ registry'[NameOf(op)].path = op[1]
          /\ registry'[NameOf(op)].method = op[2]
          /\ \A n \in DOMAIN registry \ {NameOf(op)} : registry'[n] = registry[n]]_vars

\* two operations were registered under one name, and the registry serves
\* one tool for them
C25_Witness ==
    /\ phase = "serving"
    /\ \E a \in added, b \in added :
          /\ a # b
          /\ NameOf(a) = NameOf(b)
          /\ NameOf(a) \in DOMAIN registry
          /\ Cardinality(DOMAIN registry) < Cardinality(added)

-----------------------------------------------------------------------------
(* Body fields of an unsupported type *)

SupportedTypes == {"string", "int", "integer", "float", "bool", "boolean", "array", "object"}

\* the body fields of the tool of the last run whose type the handler has no
\* case for
UnsupportedFields == {n \in DOMAIN LastTool.reqBody : LastTool.reqBody[n] \notin SupportedTypes}

AllBodyStrings == \A n \in DOMAIN LastTool.reqBody : IsString(last.args, n)

UnsupportedText(n) ==
    <<"[Error]", " unsupported parameter type: ", LastTool.reqBody[n], " for ">> \o n

\* the statement of C26 as written: with a body field of an unsupported type
\* every invocation that gives all body fields as strings returns the
\* unsupported-type error
C26_Original ==
    (IsCall /\ build = "head" /\ UnsupportedFields # {} /\ AllBodyStrings) =>
        /\ last.calls = 0
        /\ \E n \in UnsupportedFields : last.result.text = UnsupportedText(n)

\* C26: when the body field type map of a tool has a field of a type other
\* than string, int, integer, float, bool, boolean, array and object, every
\* invocation that gives all body fields as strings fails without an HTTP
\* call; its error is the unsupported-type error of such a field when the
\* path and query checks pass and the value of every other body field suits
\* its type.
C26_UnsupportedFails ==
    (IsCall /\ build = "head" /\ UnsupportedFields # {} /\ AllBodyStrings) =>
        /\ last.calls = 0
        /\ ~ last.sent
        /\ last.result.isError
        /\ ( /\ FirstNotString(LastTool.reqPathParam, last.args) = 0
             /\ FirstNotString(LastTool.reqQueryParam, last.args) = 0
             /\ (Len(LastTool.reqQueryParam) > 0 => URLParses(CurrentReqURL(LastTool, last.args)))
             /\ FailingFields(LastTool, last.args) \subseteq UnsupportedFields )
           => \E n \in UnsupportedFields : last.result.text = UnsupportedText(n)

\* an invocation with all body fields given as strings returned the
\* unsupported-type error of the field of type "number"
C26_Witness ==
    /\ IsCall /\ build = "head"
    /\ LastTool.reqBody = (sCnt :> "number" @@ sAge :> "int")
    /\ AllBodyStrings
    /\ last.args[sAge].s = <<"4","2">>
    /\ last.result.text = UnsupportedText(sCnt)
    /\ last.calls = 0

-----------------------------------------------------------------------------
(* Determinism of the binding errors *)

\* the result of one fixed run of the handler on the arguments of the last run
ReferenceRun ==
    Handle(build, LastTool, cfg, last.args, EmptyMap,
           CHOOSE pick \in PickOptions(LastTool, last.args) : TRUE)

\* C27: the error of a failed binding is determined by the tool and the
\* arguments: every invocation with these arguments returns the same error
\* text, also when more than one body field is missing or invalid.
C27_SameError ==
    IsCall /\ build = "head" /\ ~ last.sent /\ last.calls = 0 =>
        last.result.text = ReferenceRun.result.text

-----------------------------------------------------------------------------
(* The endpoint URL of the extractor and the URL template of the compiler *)

\* C28: without a base URL override the endpoint URL that ExtractSwagger
\* derives for an operation (getBaseURL and the path) is the URL template
\* that LoadSwaggerServer derives for it, for every document, OpenAPI
\* documents without servers included.
C28_SameEndpointURL ==
    probe.op = "ExtractSwagger" /\ probe.applied => probe.out = probe.reqURL

-----------------------------------------------------------------------------
(* Include lists whose patterns do not compile *)

\* C29: with an include list that has entries, a path that matches none of
\* its patterns gets no tool, also when some or all of the patterns do not
\* compile.
C29_IncludeListRestricts ==
    ( /\ probe.op = "shouldIncludePath" /\ probe.applied
      /\ PatternEntries(probe.inc) # {}
      /\ ~ MatchesSomePattern(probe.cand, probe.inc) )
    => probe.out = FALSE

-----------------------------------------------------------------------------
(* Forwarded headers that the inbound request does not have *)

\* the headers of the request of the last run as the handler has them before
\* it sets the forwarded headers
BeforeForwarding ==
    OutboundRequest(build, LastTool, [cfg EXCEPT !.SseMode = FALSE], last.args, EmptyMap,
                    last.req.pre).header

\* C30: a header configured for forwarding that the inbound request does not
\* have leaves the outbound request as it was: a header of that name set by a
\* header parameter, Content-Type, security or a custom header keeps its
\* values, and no header with an empty value is added.
C30_AbsentLeavesUnchanged ==
    IsCall /\ last.sent =>
        \A key \in ForwardedKeys :
            CanonicalHeaderKey(key) \notin DOMAIN last.inbound =>
                /\ CanonicalHeaderKey(key) \in DOMAIN last.req.header
                      <=> CanonicalHeaderKey(key) \in DOMAIN BeforeForwarding
                /\ CanonicalHeaderKey(key) \in DOMAIN BeforeForwarding =>
                      last.req.header[CanonicalHeaderKey(key)]
                         = BeforeForwarding[CanonicalHeaderKey(key)]

=============================================================================
